---- MODULE Spec2Model ----
\* BabyFoodTrack: the IndexedDB wrapper (src/db.js), the localStorage ->
\* IndexedDB migration (src/unnamed/part_002) and the storage selection,
\* in-memory arrays and CRUD handlers of FeedingTracker (src/app.js).
EXTENDS Integers, Sequences, FiniteSets, TLC

\* ---------------------------------------------------------------- bounds
MaxTime == 0      \* instants are 0..MaxTime
MaxFlat == 2      \* records per localStorage collection of an old install
MaxLines == 1     \* lines of an imported CSV file
MaxOps == 2       \* cap on the operations of a session after startup
MaxNow == 1       \* cap on the wall clock Date.now()
MaxDbTime == 4    \* instants of the records handed to the database calls
MaxCsvLines == 2  \* data lines of the CSV files of the interchange checks
MaxQTime == 2     \* instants of the records and of the ranges of the queries
MaxStored == 3    \* records of a store that is queried
MaxLimit == 2     \* largest options.limit of a query

\* ---------------------------------------------------------------- values
\* A time is an ISO string; the model writes the instant it denotes as a
\* natural number.  NoTime is `undefined` (a missing field), BadTime is a
\* string that Date cannot parse.
NoTime == 0 - 1
BadTime == 0 - 2
\* null, where a time is expected
NullTime == 0 - 3
Times == 0 .. MaxTime

\* r.k of a JavaScript object: undefined when the key is absent.
Field(r, k) == IF k \in DOMAIN r THEN r[k] ELSE NoTime

\* the value of F at e, with e evaluated once
Bind(e, F(_)) == CHOOSE y \in {F(x) : x \in {e}} : TRUE

\* { ...a, ...b }
Spread(a, b) ==
    Bind(<<a, b>>, LAMBDA p :
        [k \in (DOMAIN p[1]) \cup (DOMAIN p[2]) |->
            IF k \in DOMAIN p[2] THEN p[2][k] ELSE p[1][k]])

\* the object with the fields K of r
Pick(r, K) == [k \in K |-> r[k]]

\* the hasPee and hasPoop properties of a diaper object, where it has them
Checks == {"hasPee", "hasPoop"}
\* r[k] is true
IsTrue(r, k) == k \in DOMAIN r /\ r[k]

\* new Date(t) is a valid date
ValidDate(t) == t >= 0
\* JavaScript truthiness of a time value: undefined is falsy, strings truthy
Truthy(t) == t # NoTime

\* new Date(t).getTime(): epoch milliseconds of the instant
GetTime(t) == t * 10
\* new Date(ms).toISOString(): the instant with these epoch milliseconds
ToISOString(ms) == ms \div 10
\* 60 * 60 * 1000, the milliseconds of an hour
HourMs == 3600000
\* new Date(t).toISOString().split('T')[0]: the UTC calendar day
IsoDate(t) == 100 + (t \div 2)
\* date.substring(0, 7): the month of a calendar day
YearMonth(date) == 10 + ((date - 100) \div 2)

\* the three indexed fields computed from a time
Derived(t) ==
    [timestamp |-> GetTime(t), date |-> IsoDate(t), yearMonth |-> YearMonth(IsoDate(t))]

\* ------------------------------------------------------------- variables
VARIABLES
    ls,            \* localStorage
    db,            \* the BabyFoodDB singleton and the IndexedDB database
    feedings,      \* FeedingTracker.feedings
    diapers,       \* FeedingTracker.diapers
    medicines,     \* FeedingTracker.medicines
    useIndexedDB,  \* FeedingTracker.useIndexedDB
    storageType,   \* FeedingTracker.storageType
    timezone,      \* FeedingTracker.timezone
    phase,         \* "closed", "running", or "crashed" (init() threw)
    now,           \* the instant of the wall clock: Date.now() is GetTime(now)
    ops,           \* number of operations since startup
    last,          \* the last operation: its name, outcome and pre-state
    prev,          \* the operation before it
    pending        \* the requests issued to the database and not yet completed

vars == <<ls, db, feedings, diapers, medicines, useIndexedDB, storageType, timezone,
          phase, now, ops, last, prev, pending>>

\* no request is in flight
NoPending == [fq |-> <<>>, dq |-> <<>>, clearing |-> 0]

appVars == <<feedings, diapers, medicines, useIndexedDB, storageType, timezone, phase,
             now, ops>>

\* ------------------------------------------------------------ RecordStore
\* Every RecordStore call takes env = [avail, io]: whether indexedDB.open
\* would succeed, and whether the store request of the call succeeds.
Envs == [avail : BOOLEAN, io : BOOLEAN]
Healthy == [avail |-> TRUE, io |-> TRUE]

\* BabyFoodDB constructor and an empty database
NewDB ==
    [db |-> FALSE, isReady |-> FALSE, opens |-> 0,
     feedings |-> {}, diapers |-> {}, medicines |-> {},
     fKey |-> 0, dKey |-> 0, mKey |-> 0,
     metadata |-> [timezone |-> "null"]]

\* the singleton of a new page load: no handle, the database content kept
FreshHandle(d) == [d EXCEPT !.db = FALSE, !.isReady = FALSE]

\* init(): returns the handle it holds, or opens the database; opens counts
\* the connections indexedDB.open has made, the last of them is the handle
DbInit(d, env) ==
    IF d.db THEN [ok |-> TRUE, db |-> d]
    ELSE IF env.avail
    THEN [ok |-> TRUE, db |-> [d EXCEPT !.db = TRUE, !.isReady = TRUE, !.opens = @ + 1]]
    ELSE [ok |-> FALSE, db |-> d]

\* ensureInit()
EnsureInit(d, env) ==
    IF ~d.isReady THEN DbInit(d, env) ELSE [ok |-> TRUE, db |-> d]

\* faulty variant: close() leaves isReady set
DbCloseKeepsReady(d) == IF d.db THEN [d EXCEPT !.db = FALSE] ELSE d
\* close()
DbClose(d) == IF d.db THEN [d EXCEPT !.db = FALSE, !.isReady = FALSE] ELSE d

\* the record addFeeding/addDiaper hands to store.add
AddData(rec) == Spread(rec, Derived(rec.time))

\* addFeeding(feeding)
DbAddFeeding(d, feeding, env) ==
    LET e == EnsureInit(d, env) IN
    IF ~e.ok \/ ~ValidDate(Field(feeding, "time")) \/ ~env.io
    THEN [ok |-> FALSE, db |-> e.db, id |-> 0]
    ELSE LET id == e.db.fKey + 1
             data == Spread(AddData(feeding), [id |-> id])
         IN [ok |-> TRUE, id |-> id,
             db |-> [e.db EXCEPT !.feedings = @ \cup {data}, !.fKey = id]]

\* addDiaper(diaper)
DbAddDiaper(d, diaper, env) ==
    LET e == EnsureInit(d, env) IN
    IF ~e.ok \/ ~ValidDate(Field(diaper, "time")) \/ ~env.io
    THEN [ok |-> FALSE, db |-> e.db, id |-> 0]
    ELSE LET id == e.db.dKey + 1
             data == Spread(AddData(diaper), [id |-> id])
         IN [ok |-> TRUE, id |-> id,
             db |-> [e.db EXCEPT !.diapers = @ \cup {data}, !.dKey = id]]

\* getFeeding(id): the stored records with that key (none or one)
DbGetFeeding(d, id) == {r \in d.feedings : r.id = id}

\* the partial record updateFeeding merges into the stored one
UpdatesOf(updates) ==
    IF Truthy(Field(updates, "time"))
    THEN Spread(updates, Derived(updates.time))
    ELSE updates

\* updateFeeding(id, updates)
DbUpdateFeeding(d, id, updates, env) ==
    LET e == EnsureInit(d, env) IN
    IF ~e.ok \/ DbGetFeeding(e.db, id) = {} \/ ~env.io
       \/ (Truthy(Field(updates, "time")) /\ ~ValidDate(updates.time))
    THEN [ok |-> FALSE, db |-> e.db]
    ELSE LET feeding == CHOOSE r \in DbGetFeeding(e.db, id) : TRUE
             updatedFeeding == Spread(feeding, UpdatesOf(updates))
         IN [ok |-> TRUE,
             db |-> [e.db EXCEPT !.feedings =
                        {r \in @ : r.id # updatedFeeding.id} \cup {updatedFeeding}]]

\* deleteFeeding(id)
DbDeleteFeeding(d, id, env) ==
    LET e == EnsureInit(d, env) IN
    IF e.ok /\ env.io
    THEN [ok |-> TRUE, db |-> [e.db EXCEPT !.feedings = {r \in @ : r.id # id}]]
    ELSE [ok |-> FALSE, db |-> e.db]

\* deleteDiaper(id)
DbDeleteDiaper(d, id, env) ==
    LET e == EnsureInit(d, env) IN
    IF e.ok /\ env.io
    THEN [ok |-> TRUE, db |-> [e.db EXCEPT !.diapers = {r \in @ : r.id # id}]]
    ELSE [ok |-> FALSE, db |-> e.db]

\* clearFeedings()
DbClearFeedings(d, env) ==
    LET e == EnsureInit(d, env) IN
    IF e.ok /\ env.io
    THEN [ok |-> TRUE, db |-> [e.db EXCEPT !.feedings = {}]]
    ELSE [ok |-> FALSE, db |-> e.db]

\* clearDiapers()
DbClearDiapers(d, env) ==
    LET e == EnsureInit(d, env) IN
    IF e.ok /\ env.io
    THEN [ok |-> TRUE, db |-> [e.db EXCEPT !.diapers = {}]]
    ELSE [ok |-> FALSE, db |-> e.db]

\* clearAllData(): Promise.all of the two clears, each in its own
\* transaction; envF and envD are the outcomes of the two requests
DbClearAllData(d, envF, envD) ==
    LET e == EnsureInit(d, envF) IN
    IF ~e.ok THEN [ok |-> FALSE, db |-> e.db]
    ELSE LET f == DbClearFeedings(e.db, envF)
             g == DbClearDiapers(f.db, envD)
         IN [ok |-> f.ok /\ g.ok, db |-> g.db]

\* setMetadata('timezone', value)
DbSetMetadata(d, value, env) ==
    LET e == EnsureInit(d, env) IN
    IF e.ok /\ env.io
    THEN [ok |-> TRUE, db |-> [e.db EXCEPT !.metadata.timezone = value]]
    ELSE [ok |-> FALSE, db |-> e.db]

\* getMetadata('timezone')
DbGetMetadata(d) == d.metadata.timezone

\* results.sort((a, b) => b.timestamp - a.timestamp) on store.getAll(),
\* which lists the records by key: newest first, equal timestamps by key
RECURSIVE SortNewestFirst(_)
SortNewestFirst(S) ==
    IF S = {} THEN <<>>
    ELSE LET r == CHOOSE x \in S : \A y \in S :
                     \/ x.timestamp > y.timestamp
                     \/ (x.timestamp = y.timestamp /\ x.id <= y.id)
         IN <<r>> \o SortNewestFirst(S \ {r})

\* getFeedings(), getDiapers() without options
DbGetFeedings(d) == SortNewestFirst(d.feedings)
DbGetDiapers(d) == SortNewestFirst(d.diapers)

\* addMedicine(medicine): add('medicines', record), as addFeeding does it
DbAddMedicine(d, medicine, env) ==
    LET e == EnsureInit(d, env) IN
    IF ~e.ok \/ ~ValidDate(Field(medicine, "time")) \/ ~env.io
    THEN [ok |-> FALSE, db |-> e.db, id |-> 0]
    ELSE LET id == e.db.mKey + 1
             data == Spread(AddData(medicine), [id |-> id])
         IN [ok |-> TRUE, id |-> id,
             db |-> [e.db EXCEPT !.medicines = @ \cup {data}, !.mKey = id]]

\* updateMedicine(id, updates): update('medicines', id, partial), as
\* updateFeeding does it
DbUpdateMedicine(d, id, updates, env) ==
    LET e == EnsureInit(d, env) IN
    IF ~e.ok \/ {r \in e.db.medicines : r.id = id} = {} \/ ~env.io
       \/ (Truthy(Field(updates, "time")) /\ ~ValidDate(updates.time))
    THEN [ok |-> FALSE, db |-> e.db]
    ELSE LET medicine == CHOOSE r \in e.db.medicines : r.id = id
             updatedMedicine == Spread(medicine, UpdatesOf(updates))
         IN [ok |-> TRUE,
             db |-> [e.db EXCEPT !.medicines =
                        {r \in @ : r.id # updatedMedicine.id} \cup {updatedMedicine}]]

\* faulty variant: the range leaves out its upper bound
KeyRangeUpperOpen(S, lower, upper) ==
    {r \in S : GetTime(lower) <= r.timestamp /\ r.timestamp < GetTime(upper)}
\* index('timestamp').getAll(IDBKeyRange.bound(lower, upper)): the records
\* whose timestamp lies in the closed range
KeyRange(S, lower, upper) ==
    {r \in S : GetTime(lower) <= r.timestamp /\ r.timestamp <= GetTime(upper)}

\* IDBKeyRange.bound throws a DataError unless both bounds are valid keys
\* and the lower one is not greater than the upper one
ValidRange(lower, upper) ==
    ValidDate(lower) /\ ValidDate(upper) /\ GetTime(lower) <= GetTime(upper)

\* results.sort((a, b) => a.timestamp - b.timestamp) on the result of a
\* getAll: oldest first, equal timestamps by key
RECURSIVE SortOldestFirst(_)
SortOldestFirst(S) ==
    IF S = {} THEN <<>>
    ELSE LET r == CHOOSE x \in S : \A y \in S :
                     \/ x.timestamp < y.timestamp
                     \/ (x.timestamp = y.timestamp /\ x.id <= y.id)
         IN <<r>> \o SortOldestFirst(S \ {r})

\* options.limit when none is given
NoLimit == 0 - 1

\* the body of getFeedings(options) and getDiapers(options) on the records
\* S of the store, for options that carry startDate, endDate, date,
\* yearMonth, ascending and limit and no post-filter
GetAll(S, options) ==
    IF Truthy(options.startDate) /\ Truthy(options.endDate)
       /\ ~ValidRange(options.startDate, options.endDate)
    THEN [ok |-> FALSE, results |-> <<>>]
    ELSE LET request ==
                 IF Truthy(options.startDate) /\ Truthy(options.endDate)
                 THEN KeyRange(S, options.startDate, options.endDate)
                 ELSE IF Truthy(options.date) THEN {r \in S : r.date = options.date}
                 ELSE IF Truthy(options.yearMonth)
                 THEN {r \in S : r.yearMonth = options.yearMonth}
                 ELSE S
             sorted == IF options.ascending THEN SortOldestFirst(request)
                       ELSE SortNewestFirst(request)
         IN [ok |-> TRUE,
             results |-> IF options.limit # NoLimit /\ options.limit # 0
                         THEN SubSeq(sorted, 1, IF options.limit < Len(sorted)
                                                THEN options.limit ELSE Len(sorted))
                         ELSE sorted]

\* getFeedings(options)
DbGetFeedingsWith(d, options, env) ==
    LET e == EnsureInit(d, env) IN
    IF ~e.ok \/ ~env.io THEN [ok |-> FALSE, results |-> <<>>, db |-> e.db]
    ELSE Spread(GetAll(e.db.feedings, options), [db |-> e.db])

\* getDiapers(options)
DbGetDiapersWith(d, options, env) ==
    LET e == EnsureInit(d, env) IN
    IF ~e.ok \/ ~env.io THEN [ok |-> FALSE, results |-> <<>>, db |-> e.db]
    ELSE Spread(GetAll(e.db.diapers, options), [db |-> e.db])

\* getMedicines() without options
DbGetMedicines(d) == SortNewestFirst(d.medicines)

\* ----------------------------------------------------------- localStorage
\* A collection key holds null, the JSON text of an array, or a text
\* JSON.parse rejects.
Absent == [st |-> "absent", recs |-> <<>>]
Corrupt == [st |-> "corrupt", recs |-> <<>>]

\* JSON.stringify drops the undefined properties of an object
DropUndefined(r) ==
    [k \in {x \in DOMAIN r : x \notin Checks \cup {"active"} => r[x] # NoTime} |-> r[k]]
\* JSON.stringify(array)
Stringify(arr) == [st |-> "json", recs |-> [i \in 1 .. Len(arr) |-> DropUndefined(arr[i])]]
\* JSON.parse(text) succeeds
Parses(c) == c.st = "json"
\* JSON.parse(text), where it succeeds
Parse(c) == c.recs
\* item && item !== '[]'
HasItems(c) == c.st # "absent" /\ c # Stringify(<<>>)

NoBackup == [st |-> "absent", feedings |-> Absent, diapers |-> Absent, timezone |-> "null"]

\* ------------------------------------------------------- StorageMigration
\* faulty variant: the flag is read under a key migrate() never writes
hasMigratedOtherKey(l) == FALSE
\* hasMigrated()
hasMigrated(l) == l.migrated = "true"

\* hasLocalStorageData()
hasLocalStorageData(l) == HasItems(l.feedings) \/ HasItems(l.diapers)

\* faulty variant: the snapshot leaves out the diapers
createBackupWithoutDiapers(l) ==
    [l EXCEPT !.backup = [st |-> "json", feedings |-> l.feedings,
                          diapers |-> Absent, timezone |-> l.timezone]]
\* createBackup(): the snapshot written under backupKey
createBackup(l) ==
    [l EXCEPT !.backup = [st |-> "json", feedings |-> l.feedings,
                          diapers |-> l.diapers, timezone |-> l.timezone]]

\* restoreFromBackup(), when a backup exists
restoreFromBackup(l) ==
    LET backup == l.backup IN
    [l EXCEPT !.feedings = IF backup.feedings.st # "absent" THEN backup.feedings ELSE @,
              !.diapers = IF backup.diapers.st # "absent" THEN backup.diapers ELSE @,
              !.timezone = IF backup.timezone # "null" THEN backup.timezone ELSE @,
              !.migrated = "null"]

\* the zone of Intl.DateTimeFormat().resolvedOptions().timeZone
RuntimeZone == "tzA"
\* faulty variant: the time is read from oldFeeding.time, which the old
\* format does not have
transformFeedingFromTime(oldFeeding) ==
    [time |-> Field(oldFeeding, "time")]
\* transformFeeding(oldFeeding)
transformFeeding(oldFeeding) ==
    [time |-> Field(oldFeeding, "timestamp")]

\* transformDiaper(oldDiaper)
transformDiaper(oldDiaper) ==
    Spread([time |-> Field(oldDiaper, "timestamp")],
           Pick(oldDiaper, Checks \cap DOMAIN oldDiaper))

\* faulty variant: without the inner try/catch the first failure ends the loop
RECURSIVE MigrateFeedingsAbort(_, _, _, _)
MigrateFeedingsAbort(d, recs, i, fio) ==
    IF i > Len(recs) THEN [db |-> d, n |-> 0, errors |-> 0]
    ELSE LET a == DbAddFeeding(d, [time |-> Field(recs[i], "timestamp")],
                               [avail |-> TRUE, io |-> i \notin fio])
         IN IF ~a.ok THEN [db |-> a.db, n |-> 0, errors |-> 1]
            ELSE LET rest == MigrateFeedingsAbort(a.db, recs, i + 1, fio)
                 IN [db |-> rest.db, n |-> rest.n + 1, errors |-> rest.errors]
\* the for-of loop over the parsed feedings: each record is transformed and
\* added, a failure is pushed to results.errors and the loop goes on.
\* fio is the set of positions whose store request fails.
RECURSIVE MigrateFeedings(_, _, _, _)
MigrateFeedings(d, recs, i, fio) ==
    IF i > Len(recs) THEN [db |-> d, n |-> 0, errors |-> 0]
    ELSE LET a == DbAddFeeding(d, transformFeeding(recs[i]),
                               [avail |-> TRUE, io |-> i \notin fio])
             rest == MigrateFeedings(a.db, recs, i + 1, fio)
         IN [db |-> rest.db,
             n |-> rest.n + (IF a.ok THEN 1 ELSE 0),
             errors |-> rest.errors + (IF a.ok THEN 0 ELSE 1)]

\* the for-of loop over the parsed diapers
RECURSIVE MigrateDiapers(_, _, _, _)
MigrateDiapers(d, recs, i, dio) ==
    IF i > Len(recs) THEN [db |-> d, n |-> 0, errors |-> 0]
    ELSE LET a == DbAddDiaper(d, transformDiaper(recs[i]),
                              [avail |-> TRUE, io |-> i \notin dio])
             rest == MigrateDiapers(a.db, recs, i + 1, dio)
         IN [db |-> rest.db,
             n |-> rest.n + (IF a.ok THEN 1 ELSE 0),
             errors |-> rest.errors + (IF a.ok THEN 0 ELSE 1)]

\* the faults of one migrate() run: quota (the backup's setItem throws),
\* avail (indexedDB.open), fio and dio (per-record request failures),
\* mio (the setMetadata request)
MigFaults ==
    [quota : BOOLEAN, avail : BOOLEAN, fio : SUBSET (1 .. MaxFlat), dio : SUBSET (1 .. MaxFlat),
     mio : BOOLEAN]
NoFaults == [quota |-> FALSE, avail |-> TRUE, fio |-> {}, dio |-> {}, mio |-> TRUE]

\* the collection block of migrate(): parse, loop, or a parse error
FeedingsBlock(d, c, fio) ==
    IF ~HasItems(c) THEN [db |-> d, n |-> 0, errors |-> 0]
    ELSE IF ~Parses(c) THEN [db |-> d, n |-> 0, errors |-> 1]
    ELSE MigrateFeedings(d, Parse(c), 1, fio)
DiapersBlock(d, c, dio) ==
    IF ~HasItems(c) THEN [db |-> d, n |-> 0, errors |-> 0]
    ELSE IF ~Parses(c) THEN [db |-> d, n |-> 0, errors |-> 1]
    ELSE MigrateDiapers(d, Parse(c), 1, dio)

\* migrate(): the storage after the call, the returned result, and threw
\* when the call throws instead of returning
migrate(l, d, f) ==
    IF hasMigrated(l)
    THEN [ls |-> l, db |-> d, threw |-> FALSE, status |-> "already_migrated",
          feedings |-> 0, diapers |-> 0, errors |-> 0]
    ELSE IF ~hasLocalStorageData(l)
    THEN [ls |-> [l EXCEPT !.migrated = "true"], db |-> d, threw |-> FALSE,
          status |-> "no_data", feedings |-> 0, diapers |-> 0, errors |-> 0]
    ELSE IF f.quota
    THEN [ls |-> l, db |-> d, threw |-> TRUE, status |-> "none",
          feedings |-> 0, diapers |-> 0, errors |-> 0]
    ELSE
      Bind(createBackup(l), LAMBDA l1 :
      Bind(DbInit(d, [avail |-> f.avail, io |-> TRUE]), LAMBDA i :
      IF ~i.ok
      THEN [ls |-> l1, db |-> i.db, threw |-> FALSE, status |-> "failed",
            feedings |-> 0, diapers |-> 0, errors |-> 1]
      ELSE
        Bind(FeedingsBlock(i.db, l1.feedings, f.fio), LAMBDA fb :
        Bind(DiapersBlock(fb.db, l1.diapers, f.dio), LAMBDA gb :
        Bind(IF l1.timezone # "null"
             THEN DbSetMetadata(gb.db, l1.timezone, [avail |-> TRUE, io |-> f.mio])
             ELSE [ok |-> TRUE, db |-> gb.db], LAMBDA m :
        IF ~m.ok
        THEN [ls |-> l1, db |-> m.db, threw |-> FALSE, status |-> "failed",
              feedings |-> fb.n, diapers |-> gb.n, errors |-> fb.errors + gb.errors + 1]
        ELSE [ls |-> [l1 EXCEPT !.migrated = "true", !.feedings = Absent,
                                !.diapers = Absent],
              db |-> m.db, threw |-> FALSE, status |-> "success",
              feedings |-> fb.n, diapers |-> gb.n,
              errors |-> fb.errors + gb.errors])))))

\* the records a collection block of migrate() loops over
FlatRecords(c) == IF HasItems(c) /\ Parses(c) THEN Parse(c) ELSE <<>>

\* faulty variant: the flag is written before the transfer loops
migrateCutFlagFirst(l, d, f, k) ==
    [ls |-> [createBackup(l) EXCEPT !.migrated = "true"], db |-> FreshHandle(d)]
\* migrate() over flat data cut short by the end of the page: the backup is
\* written, k of the awaited requests have completed (the open request,
\* then one add per flat feeding and per flat diaper, in that order) and
\* nothing after them has run
migrateCut(l, d, f, k) ==
    Bind(createBackup(l), LAMBDA l1 :
    IF k = 0 THEN [ls |-> l1, db |-> FreshHandle(d)]
    ELSE
      Bind(DbInit(d, [avail |-> TRUE, io |-> TRUE]), LAMBDA i :
      Bind(FlatRecords(l1.feedings), LAMBDA F :
      Bind(FlatRecords(l1.diapers), LAMBDA D :
      Bind(IF k - 1 < Len(F) THEN k - 1 ELSE Len(F), LAMBDA nF :
      Bind(IF k - 1 - nF < Len(D) THEN k - 1 - nF ELSE Len(D), LAMBDA nD :
      Bind(MigrateFeedings(i.db, SubSeq(F, 1, nF), 1, f.fio), LAMBDA fb :
      Bind(MigrateDiapers(fb.db, SubSeq(D, 1, nD), 1, f.dio), LAMBDA gb :
      [ls |-> l1, db |-> FreshHandle(gb.db)]))))))))

\* --------------------------------------------------------- FeedingTracker
Zones == {"tzA", "tzB"}

\* the setItem call of saveToLocalStorage that throws (quota), if any
SaveFaults == {"none", "feedings", "diapers"}

\* faulty variant: only the feedings are written
saveToLocalStorageFeedingsOnly(l, F, D, M, tz, sf) ==
    IF sf # "none" THEN [ok |-> FALSE, ls |-> l]
    ELSE [ok |-> TRUE, ls |-> [l EXCEPT !.feedings = Stringify(F)]]
\* saveToLocalStorage(): the setItem calls in order, up to the one that throws
saveToLocalStorage(l, F, D, M, tz, sf) ==
    IF sf = "feedings" THEN [ok |-> FALSE, ls |-> l]
    ELSE LET l1 == [l EXCEPT !.feedings = Stringify(F)] IN
         IF sf = "diapers" THEN [ok |-> FALSE, ls |-> l1]
         ELSE LET l2 == [l1 EXCEPT !.diapers = Stringify(D)] IN
              IF sf = "medicines" THEN [ok |-> FALSE, ls |-> l2]
              ELSE [ok |-> TRUE,
                    ls |-> [l2 EXCEPT !.medicines = Stringify(M), !.timezone = tz]]

\* feedingsData.map(f => ({ id: f.id, timestamp: f.time, ... }))
FromStore(recs) ==
    [i \in 1 .. Len(recs) |-> [id |-> recs[i].id, timestamp |-> Field(recs[i], "time")]]

\* diapersData.map(d => ({ id: d.id, timestamp: d.time, hasPee: d.hasPee, ... }))
DiapersFromStore(recs) ==
    [i \in 1 .. Len(recs) |->
        Spread([id |-> recs[i].id, timestamp |-> Field(recs[i], "time")],
               Pick(recs[i], Checks \cap DOMAIN recs[i]))]

\* medicinesData.map(m => ({ id: m.id, timestamp: m.time, interval: m.interval,
\* active: m.active, nextDose: m.nextDose, ... }))
MedicinesFromStore(recs) ==
    [i \in 1 .. Len(recs) |->
        [id |-> recs[i].id, timestamp |-> Field(recs[i], "time"),
         interval |-> recs[i].interval, active |-> recs[i].active,
         nextDose |-> recs[i].nextDose]]

\* the RecordStore read of loadFromStorage that rejects, if any; "later" is
\* getMeasurements, the read after getDiapers
LoadFaults == {"none", "feedings", "diapers", "later"}

\* loadFromStorage(): the arrays and the timezone after the call, and ok
\* when it did not rethrow
loadFromStorage(d, F, D, M, tz, lf) ==
    IF lf = "feedings"
    THEN [ok |-> FALSE, feedings |-> F, diapers |-> D, medicines |-> M, timezone |-> tz]
    ELSE LET F1 == FromStore(DbGetFeedings(d)) IN
         IF lf = "diapers"
         THEN [ok |-> FALSE, feedings |-> F1, diapers |-> D, medicines |-> M, timezone |-> tz]
         ELSE LET D1 == DiapersFromStore(DbGetDiapers(d)) IN
              IF lf = "later"
              THEN [ok |-> FALSE, feedings |-> F1, diapers |-> D1, medicines |-> M,
                    timezone |-> tz]
              ELSE [ok |-> TRUE, feedings |-> F1, diapers |-> D1,
                    medicines |-> MedicinesFromStore(DbGetMedicines(d)),
                    timezone |-> IF DbGetMetadata(d) # "null" THEN DbGetMetadata(d) ELSE tz]

\* loadFromLocalStorage(): each key that is present is parsed; ok is FALSE
\* when a JSON.parse throws, which ends the load there
loadFromLocalStorage(l, F, D, M, tz) ==
    IF l.feedings.st # "absent" /\ ~Parses(l.feedings)
    THEN [ok |-> FALSE, feedings |-> F, diapers |-> D, medicines |-> M, timezone |-> tz]
    ELSE LET F1 == IF l.feedings.st # "absent" THEN Parse(l.feedings) ELSE F IN
         IF l.diapers.st # "absent" /\ ~Parses(l.diapers)
         THEN [ok |-> FALSE, feedings |-> F1, diapers |-> D, medicines |-> M, timezone |-> tz]
         ELSE LET D1 == IF l.diapers.st # "absent" THEN Parse(l.diapers) ELSE D IN
              IF l.medicines.st # "absent" /\ ~Parses(l.medicines)
              THEN [ok |-> FALSE, feedings |-> F1, diapers |-> D1, medicines |-> M,
                    timezone |-> tz]
              ELSE [ok |-> TRUE, feedings |-> F1, diapers |-> D1,
                    medicines |-> IF l.medicines.st # "absent" THEN Parse(l.medicines) ELSE M,
                    timezone |-> IF l.timezone # "null" THEN l.timezone ELSE tz]

\* the catch block of init(): fall back to localStorage
initFallback(l, F, D, M, tz) ==
    LET r == loadFromLocalStorage(l, F, D, M, tz) IN
    [useIndexedDB |-> FALSE, storageType |-> "localstorage",
     phase |-> IF r.ok THEN "running" ELSE "crashed",
     feedings |-> r.feedings, diapers |-> r.diapers, medicines |-> r.medicines,
     timezone |-> r.timezone]

\* init() of a new FeedingTracker on a new page: avail is whether
\* indexedDB.open succeeds, f the faults of migrate(), lf of the load
init(l, d, avail, f, lf) ==
    Bind(DbInit(FreshHandle(d), [avail |-> avail, io |-> TRUE]), LAMBDA i :
    IF ~i.ok
    THEN Spread(initFallback(l, <<>>, <<>>, <<>>, RuntimeZone),
                [ls |-> l, db |-> i.db, status |-> "none"])
    ELSE Bind(migrate(l, i.db, f), LAMBDA m :
         IF m.threw
         THEN Spread(initFallback(m.ls, <<>>, <<>>, <<>>, RuntimeZone),
                     [ls |-> m.ls, db |-> m.db, status |-> "threw"])
         ELSE Bind(loadFromStorage(m.db, <<>>, <<>>, <<>>, RuntimeZone, lf), LAMBDA r :
              IF r.ok
              THEN [useIndexedDB |-> TRUE, storageType |-> "indexeddb", phase |-> "running",
                    feedings |-> r.feedings, diapers |-> r.diapers,
                    medicines |-> r.medicines, timezone |-> r.timezone,
                    ls |-> m.ls, db |-> m.db, status |-> m.status]
              ELSE Spread(initFallback(m.ls, r.feedings, r.diapers, r.medicines, r.timezone),
                          [ls |-> m.ls, db |-> m.db, status |-> m.status]))))

\* array.filter(r => r.id !== id)
RECURSIVE WithoutId(_, _)
WithoutId(arr, id) ==
    IF arr = <<>> THEN <<>>
    ELSE IF Head(arr).id = id THEN WithoutId(Tail(arr), id)
    ELSE <<Head(arr)>> \o WithoutId(Tail(arr), id)

Ids(arr) == {arr[i].id : i \in 1 .. Len(arr)}
StoreIds(S) == {r.id : r \in S}

\* new Date(b.timestamp) - new Date(a.timestamp) <= 0, NaN counting as 0
NotAfter(a, b) ==
    \/ ~ValidDate(Field(a, "timestamp"))
    \/ ~ValidDate(Field(b, "timestamp"))
    \/ Field(b, "timestamp") <= Field(a, "timestamp")

\* arr.sort((a, b) => new Date(b.timestamp) - new Date(a.timestamp)):
\* a stable sort, newest first
RECURSIVE InsertNewestFirst(_, _)
InsertNewestFirst(sorted, r) ==
    IF sorted = <<>> THEN <<r>>
    ELSE IF NotAfter(Head(sorted), r) THEN <<Head(sorted)>> \o InsertNewestFirst(Tail(sorted), r)
    ELSE <<r>> \o sorted
RECURSIVE SortByTimestamp(_)
SortByTimestamp(arr) ==
    IF arr = <<>> THEN <<>>
    ELSE InsertNewestFirst(SortByTimestamp(SubSeq(arr, 1, Len(arr) - 1)), arr[Len(arr)])

\* a line of a CSV file after the header: the text it contains ("blank"
\* for an empty line, which the import skips) and its FECHA column
BlankLine == [tag |-> "blank", time |-> NoTime]
Tags == {"ALIMENTACION", "PANAL", "none"}

\* the row loop of importCSV: importedFeedings and importedDiapers
RECURSIVE Classify(_, _, _)
Classify(lines, i, currentType) ==
    IF i > Len(lines) THEN [feedings |-> <<>>, diapers |-> <<>>]
    ELSE IF lines[i].tag = "blank" THEN Classify(lines, i + 1, currentType)
    ELSE LET line == lines[i]
             row == [time |-> line.time, timestamp |-> line.time]
             diaper == Spread(row, [hasPee |-> IsTrue(line, "pee"),
                                    hasPoop |-> IsTrue(line, "poop")])
         IN IF line.tag = "ALIMENTACION" \/ currentType = "feeding"
            THEN LET rest == Classify(lines, i + 1, "feeding")
                 IN [rest EXCEPT !.feedings = <<row>> \o @]
            ELSE IF line.tag = "PANAL" \/ currentType = "diaper"
            THEN LET rest == Classify(lines, i + 1, "diaper")
                 IN [rest EXCEPT !.diapers = <<diaper>> \o @]
            ELSE Classify(lines, i + 1, currentType)

\* for (const f of importedFeedings) await db.addFeeding(f): stops at the
\* first add that rejects; failAt is the number of the call whose request
\* fails (0: none), k the number of calls made before this loop
RECURSIVE ImportFeedings(_, _, _, _, _)
ImportFeedings(d, rows, i, k, failAt) ==
    IF i > Len(rows) THEN [ok |-> TRUE, db |-> d]
    ELSE LET a == DbAddFeeding(d, rows[i], [avail |-> TRUE, io |-> k + i # failAt])
         IN IF a.ok THEN ImportFeedings(a.db, rows, i + 1, k, failAt)
            ELSE [ok |-> FALSE, db |-> a.db]
RECURSIVE ImportDiapers(_, _, _, _, _)
ImportDiapers(d, rows, i, k, failAt) ==
    IF i > Len(rows) THEN [ok |-> TRUE, db |-> d]
    ELSE LET a == DbAddDiaper(d, rows[i], [avail |-> TRUE, io |-> k + i # failAt])
         IN IF a.ok THEN ImportDiapers(a.db, rows, i + 1, k, failAt)
            ELSE [ok |-> FALSE, db |-> a.db]

\* this.loadData is called by importCSV; FeedingTracker has no such method,
\* so the call throws a TypeError
HasLoadData == FALSE

\* importedFeedings.forEach((f, idx) => f.id = Date.now() + idx)
WithIds(rows, base) ==
    [i \in 1 .. Len(rows) |->
        Spread([id |-> base + (i - 1), timestamp |-> rows[i].timestamp],
               Pick(rows[i], Checks \cap DOMAIN rows[i]))]

\* `${f.timestamp}` in a row of the exported file
ExportedTime(r) == IF Truthy(Field(r, "timestamp")) THEN r.timestamp ELSE BadTime

\* this.feedings.map(...).join('\n'): one line per record, an empty
\* line for an empty array
ExportedRows(arr, tag) ==
    IF arr = <<>> THEN <<BlankLine>>
    ELSE [i \in 1 .. Len(arr) |->
            [tag |-> tag, time |-> ExportedTime(arr[i]),
             pee |-> tag = "PANAL" /\ IsTrue(arr[i], "hasPee"),
             poop |-> tag = "PANAL" /\ IsTrue(arr[i], "hasPoop")]]

\* exportCSV(): the lines after the header; no measurements are kept, so
\* the last line is empty
exportCSV(F, D) ==
    ExportedRows(F, "ALIMENTACION") \o ExportedRows(D, "PANAL") \o <<BlankLine>>

\* -------------------------------------------------------------- the ghost
\* last and prev record an operation: its name, how it ended ("ok", "backend"
\* when the write to the active backend failed, "threw" for another
\* exception), for init() whether indexedDB.open succeeded, and for
\* migrate() the result it returned, the faults it met and the storage it
\* started from.
EmptyLs ==
    [feedings |-> Absent, diapers |-> Absent, medicines |-> Absent, timezone |-> "null",
     migrated |-> "null", backup |-> NoBackup]
Blank ==
    [op |-> "none", outcome |-> "ok", initOk |-> TRUE, status |-> "none",
     nf |-> 0, nd |-> 0, ne |-> 0, f |-> NoFaults, file |-> <<>>,
     id |-> 0, time |-> NoTime, updates |-> [time |-> NoTime],
     options |-> [limit |-> NoLimit], results |-> <<>>,
     pre |-> [ls |-> EmptyLs, db |-> NewDB]]
Plain(op, outcome) == [Blank EXCEPT !.op = op, !.outcome = outcome]

\* ---------------------------------------------------- controller actions
\* a page load: new FeedingTracker(), init()
Start(avail, f, lf) ==
    /\ phase = "closed"
    /\ \E r \in {init(ls, db, avail, f, lf)} :
       /\ ls' = r.ls
       /\ db' = r.db
       /\ feedings' = r.feedings
       /\ diapers' = r.diapers
       /\ medicines' = r.medicines
       /\ useIndexedDB' = r.useIndexedDB
       /\ storageType' = r.storageType
       /\ timezone' = r.timezone
       /\ phase' = r.phase
       /\ last' = [Blank EXCEPT !.op = "init",
                                 !.outcome = IF r.phase = "crashed" THEN "threw" ELSE "ok",
                                 !.initOk = avail, !.status = r.status]
    /\ UNCHANGED <<now, ops, prev, pending>>

\* the clock advances
Tick ==
    /\ now < MaxNow
    /\ now' = now + 1
    /\ UNCHANGED <<ls, db, feedings, diapers, medicines, useIndexedDB, storageType, timezone,
                   phase, ops, last, prev, pending>>

\* addFeeding() that answers a failed insert by switching to the fallback
AddFeedingFallsBack(t, env, sf) ==
    /\ phase = "running" /\ useIndexedDB /\ sf = "none"
    /\ ~DbAddFeeding(db, [time |-> t], env).ok
    /\ useIndexedDB' = FALSE /\ storageType' = "localstorage"
    /\ last' = Plain("addFeeding", "backend")
    /\ UNCHANGED <<ls, db, feedings, diapers, medicines, timezone, phase, now, prev, pending>>
    /\ ops < MaxOps
    /\ ops' = ops + 1

\* addFeeding() with a valid time in the form
AddFeeding(t, env, sf) ==
    /\ phase = "running"
    /\ IF useIndexedDB
       THEN /\ sf = "none"
            /\ LET a == DbAddFeeding(db, [time |-> t], env) IN
               /\ db' = a.db
               /\ feedings' = IF a.ok
                              THEN <<[id |-> a.id, timestamp |-> t]>> \o feedings
                              ELSE feedings
               /\ last' = Plain("addFeeding", IF a.ok THEN "ok" ELSE "backend")
            /\ UNCHANGED ls
       ELSE /\ env = Healthy
            /\ LET F1 == <<[id |-> GetTime(now), timestamp |-> t]>> \o feedings
                   s == saveToLocalStorage(ls, F1, diapers, medicines, timezone, sf)
               IN /\ feedings' = F1
                  /\ ls' = s.ls
                  /\ last' = Plain("addFeeding", IF s.ok THEN "ok" ELSE "backend")
            /\ UNCHANGED db
    /\ UNCHANGED <<diapers, medicines, useIndexedDB, storageType, timezone, phase, now, prev, pending>>
    /\ ops < MaxOps
    /\ ops' = ops + 1

\* addDiaper() with a valid time and pee or poop checked
AddDiaper(t, hasPee, hasPoop, env, sf) ==
    /\ phase = "running"
    /\ hasPee \/ hasPoop
    /\ IF useIndexedDB
       THEN /\ sf = "none"
            /\ LET a == DbAddDiaper(db, [time |-> t, hasPee |-> hasPee,
                                         hasPoop |-> hasPoop], env) IN
               /\ db' = a.db
               /\ diapers' = IF a.ok
                             THEN <<[id |-> a.id, timestamp |-> t, hasPee |-> hasPee,
                                     hasPoop |-> hasPoop]>> \o diapers
                             ELSE diapers
               /\ last' = Plain("addDiaper", IF a.ok THEN "ok" ELSE "backend")
            /\ UNCHANGED ls
       ELSE /\ env = Healthy
            /\ LET D1 == <<[id |-> GetTime(now), timestamp |-> t, hasPee |-> hasPee,
                            hasPoop |-> hasPoop]>> \o diapers
                   s == saveToLocalStorage(ls, feedings, D1, medicines, timezone, sf)
               IN /\ diapers' = D1
                  /\ ls' = s.ls
                  /\ last' = Plain("addDiaper", IF s.ok THEN "ok" ELSE "backend")
            /\ UNCHANGED db
    /\ UNCHANGED <<feedings, medicines, useIndexedDB, storageType, timezone, phase, now, prev, pending>>
    /\ ops < MaxOps
    /\ ops' = ops + 1

\* deleteFeeding(id), confirmed, on a listed record
DeleteFeeding(id, env, sf) ==
    /\ phase = "running"
    /\ id \in Ids(feedings)
    /\ IF useIndexedDB
       THEN /\ sf = "none"
            /\ LET r == DbDeleteFeeding(db, id, env) IN
               /\ db' = r.db
               /\ feedings' = IF r.ok THEN WithoutId(feedings, id) ELSE feedings
               /\ last' = Plain("deleteFeeding", IF r.ok THEN "ok" ELSE "backend")
            /\ UNCHANGED ls
       ELSE /\ env = Healthy
            /\ LET F1 == WithoutId(feedings, id)
                   s == saveToLocalStorage(ls, F1, diapers, medicines, timezone, sf)
               IN /\ feedings' = F1
                  /\ ls' = s.ls
                  /\ last' = Plain("deleteFeeding", IF s.ok THEN "ok" ELSE "backend")
            /\ UNCHANGED db
    /\ UNCHANGED <<diapers, medicines, useIndexedDB, storageType, timezone, phase, now, prev, pending>>
    /\ ops < MaxOps
    /\ ops' = ops + 1

\* deleteDiaper(id), confirmed, on a listed record
DeleteDiaper(id, env, sf) ==
    /\ phase = "running"
    /\ id \in Ids(diapers)
    /\ IF useIndexedDB
       THEN /\ sf = "none"
            /\ LET r == DbDeleteDiaper(db, id, env) IN
               /\ db' = r.db
               /\ diapers' = IF r.ok THEN WithoutId(diapers, id) ELSE diapers
               /\ last' = Plain("deleteDiaper", IF r.ok THEN "ok" ELSE "backend")
            /\ UNCHANGED ls
       ELSE /\ env = Healthy
            /\ LET D1 == WithoutId(diapers, id)
                   s == saveToLocalStorage(ls, feedings, D1, medicines, timezone, sf)
               IN /\ diapers' = D1
                  /\ ls' = s.ls
                  /\ last' = Plain("deleteDiaper", IF s.ok THEN "ok" ELSE "backend")
            /\ UNCHANGED db
    /\ UNCHANGED <<feedings, medicines, useIndexedDB, storageType, timezone, phase, now, prev, pending>>
    /\ ops < MaxOps
    /\ ops' = ops + 1

\* faulty variant: the handler saves the emptied arrays to localStorage in
\* primary mode as well
ClearAllBothBackends(envF, envD, sf) ==
    /\ phase = "running" /\ useIndexedDB /\ sf = "none"
    /\ \E r \in {DbClearAllData(db, envF, envD)} :
       /\ r.ok
       /\ db' = r.db
    /\ feedings' = <<>> /\ diapers' = <<>> /\ medicines' = <<>>
    /\ ls' = saveToLocalStorage(ls, <<>>, <<>>, <<>>, timezone, sf).ls
    /\ last' = Plain("clearAll", "ok")
    /\ UNCHANGED <<useIndexedDB, storageType, timezone, phase, now, prev, pending>>
    /\ ops < MaxOps
    /\ ops' = ops + 1

\* the clear-all-data click handler, both confirms accepted
ClearAll(envF, envD, sf) ==
    /\ phase = "running"
    /\ IF useIndexedDB
       THEN /\ sf = "none"
            /\ LET r == DbClearAllData(db, envF, envD) IN
               /\ db' = r.db
               /\ feedings' = IF r.ok THEN <<>> ELSE feedings
               /\ diapers' = IF r.ok THEN <<>> ELSE diapers
               /\ medicines' = IF r.ok THEN <<>> ELSE medicines
               /\ last' = Plain("clearAll", IF r.ok THEN "ok" ELSE "backend")
            /\ UNCHANGED ls
       ELSE /\ envF = Healthy /\ envD = Healthy
            /\ LET s == saveToLocalStorage(ls, <<>>, <<>>, <<>>, timezone, sf) IN
               /\ feedings' = <<>>
               /\ diapers' = <<>>
               /\ medicines' = <<>>
               /\ ls' = s.ls
               /\ last' = Plain("clearAll", IF s.ok THEN "ok" ELSE "backend")
            /\ UNCHANGED db
    /\ UNCHANGED <<useIndexedDB, storageType, timezone, phase, now, prev, pending>>
    /\ ops < MaxOps
    /\ ops' = ops + 1

\* importCSV: the reader.onload handler on a file with these lines after
\* the header, the confirm accepted
ImportCSV(lines, failAt, sf) ==
    /\ phase = "running"
    /\ LET c == Classify(lines, 1, "null")
           total == Len(c.feedings) + Len(c.diapers)
       IN
       /\ total > 0
       /\ IF useIndexedDB
          THEN /\ sf = "none"
               /\ failAt <= total
               /\ LET a == ImportFeedings(db, c.feedings, 1, 0, failAt)
                      b == IF a.ok
                           THEN ImportDiapers(a.db, c.diapers, 1, Len(c.feedings), failAt)
                           ELSE a
                      r == IF b.ok /\ HasLoadData
                           THEN loadFromStorage(b.db, feedings, diapers, medicines, timezone,
                                                "none")
                           ELSE [ok |-> FALSE, feedings |-> feedings, diapers |-> diapers,
                                 medicines |-> medicines, timezone |-> timezone]
                  IN /\ db' = b.db
                     /\ feedings' = r.feedings
                     /\ diapers' = r.diapers
                     /\ timezone' = r.timezone
                     /\ last' = [Plain("importCSV",
                                       IF ~b.ok THEN "backend"
                                       ELSE IF r.ok THEN "ok" ELSE "threw")
                                   EXCEPT !.file = lines]
               /\ UNCHANGED ls
          ELSE /\ failAt = 0
               /\ LET F1 == SortByTimestamp(WithIds(c.feedings, GetTime(now)) \o feedings)
                      D1 == SortByTimestamp(WithIds(c.diapers, GetTime(now) + 10000) \o diapers)
                      s == saveToLocalStorage(ls, F1, D1, medicines, timezone, sf)
                  IN /\ feedings' = F1
                     /\ diapers' = D1
                     /\ ls' = s.ls
                     /\ last' = [Plain("importCSV", IF s.ok THEN "ok" ELSE "backend")
                                   EXCEPT !.file = lines]
               /\ UNCHANGED <<db, timezone>>
    /\ UNCHANGED <<medicines, useIndexedDB, storageType, phase, now, prev, pending>>
    /\ ops < MaxOps
    /\ ops' = ops + 1

\* the hours between doses offered by the medicine form: 0 is an
\* occasional medicine
Intervals == {0, 8}

\* addMedicine(): the medicine object built from the form
NewMedicine(t, interval) ==
    [time |-> t, interval |-> interval, active |-> TRUE,
     nextDose |-> IF interval > 0 THEN ToISOString(GetTime(t) + interval * HourMs)
                  ELSE NullTime]

\* addMedicine() with the required fields filled in
AddMedicine(t, interval, env, sf) ==
    /\ phase = "running"
    /\ LET medicine == NewMedicine(t, interval) IN
       IF useIndexedDB
       THEN /\ sf = "none"
            /\ LET a == DbAddMedicine(db, medicine, env) IN
               /\ db' = a.db
               /\ medicines' = IF a.ok
                               THEN <<Spread([id |-> a.id, timestamp |-> medicine.time],
                                             medicine)>> \o medicines
                               ELSE medicines
               /\ last' = Plain("addMedicine", IF a.ok THEN "ok" ELSE "backend")
            /\ UNCHANGED ls
       ELSE /\ env = Healthy
            /\ LET M1 == <<Spread([id |-> GetTime(now), timestamp |-> medicine.time],
                                  medicine)>> \o medicines
                   s == saveToLocalStorage(ls, feedings, diapers, M1, timezone, sf)
               IN /\ medicines' = M1
                  /\ ls' = s.ls
                  /\ last' = Plain("addMedicine", IF s.ok THEN "ok" ELSE "backend")
            /\ UNCHANGED db
    /\ UNCHANGED <<feedings, diapers, useIndexedDB, storageType, timezone, phase, now, prev, pending>>
    /\ ops < MaxOps
    /\ ops' = ops + 1

\* this.medicines.find(m => m.id === id): the position of the first match
Find(arr, id) == CHOOSE i \in 1 .. Len(arr) :
                    arr[i].id = id /\ \A j \in 1 .. i - 1 : arr[j].id # id

\* markMedicineTaken(id) on a listed medicine.  The handler reads the clock
\* for historyEntry.time and again, lag instants later, for nextDose and
\* for the id of the fallback path; envU and envA are the outcomes of the
\* updateMedicine and the addMedicine request.
MarkMedicineTaken(id, lag, envU, envA, sf) ==
    /\ phase = "running"
    /\ id \in Ids(medicines)
    /\ now + lag <= MaxNow
    /\ LET at == Find(medicines, id)
           medicine == medicines[at]
           historyEntry == [time |-> now, interval |-> 0, active |-> FALSE,
                            nextDose |-> NullTime]
           nextDose == ToISOString(GetTime(now + lag) + medicine.interval * HourMs)
           u == IF medicine.interval > 0 /\ useIndexedDB
                THEN DbUpdateMedicine(db, id, [nextDose |-> nextDose], envU)
                ELSE [ok |-> TRUE, db |-> db]
           M1 == IF medicine.interval > 0 /\ u.ok
                 THEN [medicines EXCEPT ![at].nextDose = nextDose]
                 ELSE medicines
       IN
       IF useIndexedDB
       THEN /\ sf = "none"
            /\ medicine.interval = 0 => envU = Healthy
            /\ ~u.ok => envA = Healthy
            /\ LET a == IF u.ok THEN DbAddMedicine(u.db, historyEntry, envA)
                        ELSE [ok |-> FALSE, db |-> u.db, id |-> 0]
               IN /\ db' = a.db
                  /\ medicines' = IF a.ok
                                  THEN <<Spread([id |-> a.id, timestamp |-> historyEntry.time],
                                                historyEntry)>> \o M1
                                  ELSE M1
                  /\ last' = [Plain("markMedicineTaken", IF a.ok THEN "ok" ELSE "backend")
                                EXCEPT !.id = id, !.time = historyEntry.time]
            /\ UNCHANGED ls
       ELSE /\ envU = Healthy /\ envA = Healthy
            /\ LET M2 == <<Spread([id |-> GetTime(now + lag) + 1,
                                   timestamp |-> historyEntry.time], historyEntry)>> \o M1
                   s == saveToLocalStorage(ls, feedings, diapers, M2, timezone, sf)
               IN /\ medicines' = M2
                  /\ ls' = s.ls
                  /\ last' = [Plain("markMedicineTaken", IF s.ok THEN "ok" ELSE "backend")
                                EXCEPT !.id = id, !.time = historyEntry.time]
            /\ UNCHANGED db
    /\ now' = now + lag
    /\ UNCHANGED <<feedings, diapers, useIndexedDB, storageType, timezone, phase, prev, pending>>
    /\ ops < MaxOps
    /\ ops' = ops + 1

\* ------------------------------------------------------------- the installs
\* a record of the old localStorage format
FlatRecord(i, t) == [id |-> 100 + i, timestamp |-> t]

FlatArrays(n) == UNION {[1 .. k -> Times] : k \in 0 .. n}
FlatOf(s) == Stringify([i \in 1 .. Len(s) |-> FlatRecord(i, s[i])])
\* a diaper of the old format, as addDiaper saved it
FlatDiaper(i, t) == [id |-> 100 + i, timestamp |-> t, hasPee |-> TRUE, hasPoop |-> FALSE]
FlatDiapersOf(s) == Stringify([i \in 1 .. Len(s) |-> FlatDiaper(i, s[i])])

\* the files imported: up to MaxLines lines, each with a parseable FECHA
LineTimes == {0}
LinesOf == UNION {[1 .. n -> [tag : Tags, time : LineTimes]] : n \in 1 .. MaxLines}

Init ==
    /\ ls \in [feedings : {Absent, Corrupt, FlatOf(<<0>>)},
               diapers : {Absent, FlatDiapersOf(<<0>>)},
               medicines : {Absent},
               timezone : {"tzB"},
               migrated : {"null"},
               backup : {NoBackup}]
    /\ db = NewDB
    /\ feedings = <<>>
    /\ diapers = <<>>
    /\ medicines = <<>>
    /\ useIndexedDB = FALSE
    /\ storageType = "initializing"
    /\ timezone = RuntimeZone
    /\ phase = "closed"
    /\ now = 0
    /\ ops = 0
    /\ last = Blank
    /\ prev = Blank
    /\ pending = NoPending

Next ==
    \/ \E avail \in BOOLEAN, f \in MigFaults, lf \in LoadFaults : Start(avail, f, lf)
    \/ Tick
    \/ \E t \in Times, env \in Envs, sf \in SaveFaults : AddFeeding(t, env, sf)
    \/ \E t \in Times, env \in Envs, sf \in SaveFaults : AddDiaper(t, TRUE, FALSE, env, sf)
    \/ \E id \in Ids(feedings), env \in Envs, sf \in SaveFaults : DeleteFeeding(id, env, sf)
    \/ \E id \in Ids(diapers), env \in Envs, sf \in SaveFaults : DeleteDiaper(id, env, sf)
    \/ \E envF \in Envs, envD \in Envs, sf \in SaveFaults : ClearAll(envF, envD, sf)
    \/ \E lines \in LinesOf, failAt \in 0 .. MaxLines, sf \in SaveFaults : ImportCSV(lines, failAt, sf)

Spec == Init /\ [][Next]_vars

\* ------------------------------------------------- the CSV interchange
\* exportCSV(): the file offered for download; the controller is unchanged
ExportCSV ==
    /\ phase = "running"
    /\ ops < MaxOps
    /\ last' = [Plain("exportCSV", "ok") EXCEPT !.file = exportCSV(feedings, diapers)]
    /\ ops' = ops + 1
    /\ UNCHANGED <<ls, db, feedings, diapers, medicines, useIndexedDB, storageType, timezone,
                   phase, now, prev, pending>>

\* the data lines of the files imported: a feeding row, a feeding row whose
\* FECHA cannot be parsed, a diaper row with 'Sí' for pee, a diaper row
\* without 'Sí' or 'Yes' in either column, a row of neither kind
CsvLines ==
    {[tag |-> "ALIMENTACION", time |-> 0], [tag |-> "ALIMENTACION", time |-> BadTime],
     [tag |-> "PANAL", time |-> 0, pee |-> TRUE, poop |-> FALSE],
     [tag |-> "PANAL", time |-> 0], [tag |-> "none", time |-> 0]}
CsvFiles == UNION {[1 .. n -> CsvLines] : n \in 1 .. MaxCsvLines}

InitCsv ==
    /\ ls \in [feedings : {Absent, FlatOf(<<0>>)},
               diapers : {Absent, FlatDiapersOf(<<0>>)},
               medicines : {Absent},
               timezone : {"tzB"},
               migrated : {"null"},
               backup : {NoBackup}]
    /\ db = NewDB
    /\ feedings = <<>>
    /\ diapers = <<>>
    /\ medicines = <<>>
    /\ useIndexedDB = FALSE
    /\ storageType = "initializing"
    /\ timezone = RuntimeZone
    /\ phase = "closed"
    /\ now = 0
    /\ ops = 0
    /\ last = Blank
    /\ prev = Blank
    /\ pending = NoPending

NextCsv ==
    \/ \E avail \in BOOLEAN : Start(avail, NoFaults, "none")
    \/ \E t \in Times : AddFeeding(t, Healthy, "none")
    \/ \E t \in Times, hasPee \in BOOLEAN, hasPoop \in BOOLEAN :
          AddDiaper(t, hasPee, hasPoop, Healthy, "none")
    \/ ExportCSV
    \/ \E lines \in CsvFiles : ImportCSV(lines, 0, "none")

SpecCsv == InitCsv /\ [][NextCsv]_vars

\* ------------------------------------------------------ the medicines
\* the faults of saveToLocalStorage in the medicine handlers
MedSaveFaults == {"none", "medicines"}
\* the largest lag of the clock between two reads of one handler
Lags == 0 .. 1

\* a medicine every 8 hours, as a fallback session saved it
FlatMedicine == Spread([id |-> 100, timestamp |-> 0], NewMedicine(0, 8))

InitMed ==
    /\ ls \in [feedings : {Absent},
               diapers : {Absent},
               medicines : {Absent, Stringify(<<FlatMedicine>>)},
               timezone : {"tzB"},
               migrated : {"null"},
               backup : {NoBackup}]
    /\ db = NewDB
    /\ feedings = <<>>
    /\ diapers = <<>>
    /\ medicines = <<>>
    /\ useIndexedDB = FALSE
    /\ storageType = "initializing"
    /\ timezone = RuntimeZone
    /\ phase = "closed"
    /\ now = 0
    /\ ops = 0
    /\ last = Blank
    /\ prev = Blank
    /\ pending = NoPending

NextMed ==
    \/ \E avail \in BOOLEAN : Start(avail, NoFaults, "none")
    \/ Tick
    \/ \E t \in Times, h \in Intervals, env \in Envs, sf \in MedSaveFaults :
          AddMedicine(t, h, env, sf)
    \/ \E id \in Ids(medicines), lag \in Lags, envU \in Envs, envA \in Envs,
          sf \in MedSaveFaults : MarkMedicineTaken(id, lag, envU, envA, sf)
    \/ \E envF \in Envs, envD \in Envs, sf \in MedSaveFaults : ClearAll(envF, envD, sf)

SpecMed == InitMed /\ [][NextMed]_vars

\* ------------------------------------------------- the migration service
\* the flat arrays of an old install, some records without a timestamp
MigArrays(n) == UNION {[1 .. k -> Times \cup {NoTime}] : k \in 0 .. n}

\* the faults of a migrate() run that its code path met
Effective(l, d, f) ==
    IF hasMigrated(l) \/ ~hasLocalStorageData(l) THEN NoFaults
    ELSE IF f.quota THEN [NoFaults EXCEPT !.quota = TRUE]
    ELSE IF ~d.db /\ ~f.avail THEN [NoFaults EXCEPT !.avail = FALSE]
    ELSE [quota |-> FALSE, avail |-> TRUE,
          fio |-> f.fio \cap (1 .. Len(l.feedings.recs)),
          dio |-> f.dio \cap (1 .. Len(l.diapers.recs)),
          mio |-> f.mio \/ l.timezone = "null"]

\* localStorage before the first migrate(): the keys of an old install, or
\* the keys a fallback session wrote with saveToLocalStorage, which writes
\* every collection
InitMig ==
    /\ ls \in [feedings : {Absent, Corrupt} \cup {FlatOf(a) : a \in MigArrays(MaxFlat)},
               diapers : {Absent} \cup {FlatDiapersOf(a) : a \in MigArrays(1)},
               medicines : {Absent},
               timezone : {"null", "tzB"},
               migrated : {"null"},
               backup : {NoBackup}]
          \cup
             [feedings : {FlatOf(a) : a \in FlatArrays(1)},
              diapers : {FlatDiapersOf(<<>>)},
              medicines : {Stringify(<<>>), Stringify(<<FlatMedicine>>)},
              timezone : {"tzB"},
              migrated : {"null"},
              backup : {NoBackup}]
    /\ db = NewDB
    /\ feedings = <<>>
    /\ diapers = <<>>
    /\ medicines = <<>>
    /\ useIndexedDB = FALSE
    /\ storageType = "initializing"
    /\ timezone = RuntimeZone
    /\ phase = "closed"
    /\ now = 0
    /\ ops = 0
    /\ last = Blank
    /\ prev = Blank
    /\ pending = NoPending

\* migration.migrate()
MigrateCall(f) ==
    /\ ops < MaxOps
    /\ \E r \in {migrate(ls, db, f)} :
       /\ ls' = r.ls
       /\ db' = r.db
       /\ last' = [Blank EXCEPT !.op = "migrate",
                                 !.outcome = IF r.threw THEN "threw" ELSE "ok",
                                 !.status = r.status,
                                 !.nf = r.feedings, !.nd = r.diapers, !.ne = r.errors,
                                 !.f = Effective(ls, db, f),
                                 !.pre = [ls |-> ls, db |-> db]]
    /\ prev' = last
    /\ pending' = pending
    /\ ops' = ops + 1
    /\ UNCHANGED <<feedings, diapers, medicines, useIndexedDB, storageType, timezone, phase,
                   now>>

\* migration.restoreFromBackup()
RestoreCall ==
    /\ ops < MaxOps
    /\ IF ls.backup.st = "absent"
       THEN /\ ls' = ls
            /\ last' = [Plain("restore", "threw") EXCEPT !.pre = [ls |-> ls, db |-> db]]
       ELSE /\ ls' = restoreFromBackup(ls)
            /\ last' = [Plain("restore", "ok") EXCEPT !.pre = [ls |-> ls, db |-> db]]
    /\ prev' = last
    /\ pending' = pending
    /\ ops' = ops + 1
    /\ UNCHANGED <<db, feedings, diapers, medicines, useIndexedDB, storageType, timezone,
                   phase, now>>

NextMig ==
    \/ \E f \in MigFaults : MigrateCall(f)
    \/ RestoreCall

SpecMig == InitMig /\ [][NextMig]_vars

\* the page is closed while migrate() waits for a request
MigrateCrash(f, k) ==
    /\ ops < MaxOps
    /\ ~hasMigrated(ls) /\ hasLocalStorageData(ls)
    /\ ~f.quota /\ f.avail /\ f.mio
    /\ k <= 1 + Len(FlatRecords(ls.feedings)) + Len(FlatRecords(ls.diapers))
    /\ \E r \in {migrateCut(ls, db, f, k)} :
       /\ ls' = r.ls
       /\ db' = r.db
    /\ last' = [Blank EXCEPT !.op = "migrateCrash", !.id = k,
                              !.pre = [ls |-> ls, db |-> db]]
    /\ prev' = last
    /\ pending' = pending
    /\ ops' = ops + 1
    /\ UNCHANGED <<feedings, diapers, medicines, useIndexedDB, storageType, timezone, phase,
                   now>>

NextMigCrash ==
    \/ \E f \in MigFaults : MigrateCall(f)
    \/ \E fio \in SUBSET {1}, k \in 0 .. 1 + MaxFlat + 1 :
          MigrateCrash([NoFaults EXCEPT !.fio = fio], k)

SpecMigCrash == InitMig /\ [][NextMigCrash]_vars

\* ------------------------------------------------- the database calls
DbTimes == 0 .. MaxDbTime
IndexedFields == {"timestamp", "date", "yearMonth"}

\* the objects a caller passes: a time, none, or an unparseable one, and
\* any of the indexed fields with the values of some instant
CallerRecords ==
    {Spread(Pick([time |-> t], IF t = NoTime THEN {} ELSE {"time"}), Pick(Derived(u), K)) :
        t \in DbTimes \cup {NoTime, BadTime}, u \in DbTimes, K \in SUBSET IndexedFields}

StoreKeys == 1 .. MaxOps

\* the partial records handed to updateFeeding: a time, valid or not, some
\* of the indexed fields without a time, a time with a stale timestamp, or
\* the id of a record
Partials ==
    {[time |-> t] : t \in {0, MaxDbTime, BadTime}}
    \cup {Pick(Derived(MaxDbTime), K) : K \in (SUBSET IndexedFields) \ {{}}}
    \cup {[time |-> 0, timestamp |-> GetTime(MaxDbTime)]}
    \cup {[id |-> k] : k \in StoreKeys}

\* the singleton as constructed, or with the handle the startup of the
\* page opened
InitDB ==
    /\ ls = EmptyLs
    /\ db \in {NewDB, DbInit(NewDB, Healthy).db}
    /\ feedings = <<>>
    /\ diapers = <<>>
    /\ medicines = <<>>
    /\ useIndexedDB = FALSE
    /\ storageType = "initializing"
    /\ timezone = RuntimeZone
    /\ phase = "closed"
    /\ now = 0
    /\ ops = 0
    /\ last = Blank
    /\ prev = Blank
    /\ pending = NoPending

\* the bookkeeping of a database call named op with effect r
DbCall(op, r) ==
    /\ db' = r.db
    /\ last' = Plain(op, IF r.ok THEN "ok" ELSE "backend")
    /\ prev' = last
    /\ pending' = pending
    /\ ops' = ops + 1
    /\ UNCHANGED <<ls, feedings, diapers, medicines, useIndexedDB, storageType, timezone,
                   phase, now>>

InitCall(env) ==
    /\ ops < MaxOps
    /\ DbCall("init", DbInit(db, env))

CloseCall ==
    /\ ops < MaxOps
    /\ DbCall("close", [ok |-> TRUE, db |-> DbClose(db)])

AddFeedingCall(rec, env) ==
    /\ ops < MaxOps
    /\ DbCall("addFeeding", DbAddFeeding(db, rec, env))

AddDiaperCall(rec, env) ==
    /\ ops < MaxOps
    /\ DbCall("addDiaper", DbAddDiaper(db, rec, env))

UpdateFeedingCall(id, updates, env) ==
    /\ ops < MaxOps
    /\ \E r \in {DbUpdateFeeding(db, id, updates, env)} :
          /\ db' = r.db
          /\ last' = [Plain("updateFeeding", IF r.ok THEN "ok" ELSE "backend")
                        EXCEPT !.id = id, !.updates = updates]
    /\ prev' = last
    /\ pending' = pending
    /\ ops' = ops + 1
    /\ UNCHANGED <<ls, feedings, diapers, medicines, useIndexedDB, storageType, timezone,
                   phase, now>>

DeleteFeedingCall(id, env) ==
    /\ ops < MaxOps
    /\ DbCall("deleteFeeding", DbDeleteFeeding(db, id, env))

DeleteDiaperCall(id, env) ==
    /\ ops < MaxOps
    /\ DbCall("deleteDiaper", DbDeleteDiaper(db, id, env))

ClearAllDataCall(envF, envD) ==
    /\ ops < MaxOps
    /\ DbCall("clearAllData", DbClearAllData(db, envF, envD))

NextDB ==
    \/ \E env \in Envs : InitCall(env)
    \/ CloseCall
    \/ \E rec \in CallerRecords, env \in Envs : AddFeedingCall(rec, env)
    \/ \E rec \in CallerRecords, env \in Envs : AddDiaperCall(rec, env)
    \/ \E id \in StoreKeys, updates \in Partials, env \in Envs :
          UpdateFeedingCall(id, updates, env)
    \/ \E id \in StoreKeys, env \in Envs : DeleteFeedingCall(id, env)
    \/ \E id \in StoreKeys, env \in Envs : DeleteDiaperCall(id, env)
    \/ \E envF \in Envs, envD \in Envs : ClearAllDataCall(envF, envD)

SpecDB == InitDB /\ [][NextDB]_vars

\* ------------------------------------------------------- the queries
QTimes == 0 .. MaxQTime

\* the options of a query: a range, or one end of it, or a day, or a month,
\* or none of them, with the order and the limit
QueryOptions ==
    [startDate : QTimes \cup {NoTime}, endDate : QTimes \cup {NoTime},
     date : {NoTime}, yearMonth : {NoTime},
     ascending : BOOLEAN, limit : {NoLimit} \cup (0 .. MaxLimit)]
    \cup
    [startDate : {NoTime}, endDate : {NoTime},
     date : {NoTime, IsoDate(0)}, yearMonth : {NoTime, YearMonth(IsoDate(0))},
     ascending : {FALSE}, limit : {NoLimit}]

\* the open database after addFeeding and addDiaper of a record for each
\* time of the sequence
RECURSIVE StoreOf(_)
StoreOf(times) ==
    IF times = <<>> THEN DbInit(NewDB, Healthy).db
    ELSE LET d == StoreOf(SubSeq(times, 1, Len(times) - 1))
             t == times[Len(times)]
             f == DbAddFeeding(d, [time |-> t], Healthy)
         IN DbAddDiaper(f.db, [time |-> t, hasPee |-> TRUE, hasPoop |-> FALSE], Healthy).db

InitQuery ==
    /\ ls = EmptyLs
    /\ db \in {StoreOf(s) : s \in UNION {[1 .. n -> QTimes] : n \in 0 .. MaxStored}}
    /\ feedings = <<>>
    /\ diapers = <<>>
    /\ medicines = <<>>
    /\ useIndexedDB = FALSE
    /\ storageType = "initializing"
    /\ timezone = RuntimeZone
    /\ phase = "closed"
    /\ now = 0
    /\ ops = 0
    /\ last = Blank
    /\ prev = Blank
    /\ pending = NoPending

GetFeedingsCall(options) ==
    /\ ops = 0
    /\ \E r \in {DbGetFeedingsWith(db, options, Healthy)} :
          /\ db' = r.db
          /\ last' = [Plain("getFeedings", IF r.ok THEN "ok" ELSE "threw")
                        EXCEPT !.options = options, !.results = r.results]
    /\ prev' = last
    /\ pending' = pending
    /\ ops' = ops + 1
    /\ UNCHANGED <<ls, feedings, diapers, medicines, useIndexedDB, storageType, timezone,
                   phase, now>>

GetDiapersCall(options) ==
    /\ ops = 0
    /\ \E r \in {DbGetDiapersWith(db, options, Healthy)} :
          /\ db' = r.db
          /\ last' = [Plain("getDiapers", IF r.ok THEN "ok" ELSE "threw")
                        EXCEPT !.options = options, !.results = r.results]
    /\ prev' = last
    /\ pending' = pending
    /\ ops' = ops + 1
    /\ UNCHANGED <<ls, feedings, diapers, medicines, useIndexedDB, storageType, timezone,
                   phase, now>>

\* one query on each store
NextQuery ==
    \/ \E options \in QueryOptions : GetFeedingsCall(options)
    \/ \E options \in QueryOptions : GetDiapersCall(options)

SpecQuery == InitQuery /\ [][NextQuery]_vars

\* ------------------------------------------- handlers awaiting the database
\* Each handler is an async function started by a UI event: it runs up to
\* its await of the database call, and its remainder runs when the request
\* has completed. Transactions on one object store complete in the order
\* they were created; transactions on different stores are not ordered.

\* the handlers started in one session
MaxStarted == 3

\* a primary-mode session on a new install, nothing in flight
InitRace ==
    \E r \in {init(EmptyLs, NewDB, TRUE, NoFaults, "none")} :
       /\ ls = r.ls
       /\ db = r.db
       /\ feedings = r.feedings
       /\ diapers = r.diapers
       /\ medicines = r.medicines
       /\ useIndexedDB = r.useIndexedDB
       /\ storageType = r.storageType
       /\ timezone = r.timezone
       /\ phase = r.phase
       /\ now = 0
       /\ ops = 0
       /\ last = Blank
       /\ prev = Blank
       /\ pending = NoPending

\* the submit handler of the feeding form: addFeeding() up to
\* await db.addFeeding(feeding)
SubmitFeeding(t) ==
    /\ phase = "running" /\ useIndexedDB
    /\ ops < MaxStarted
    /\ pending' = [pending EXCEPT !.fq = Append(@, [op |-> "add", time |-> t])]
    /\ last' = Plain("addFeeding", "pending")
    /\ ops' = ops + 1
    /\ UNCHANGED <<ls, db, feedings, diapers, medicines, useIndexedDB, storageType, timezone,
                   phase, now, prev>>

\* the submit handler of the diaper form: addDiaper() up to
\* await db.addDiaper(diaper)
SubmitDiaper(t) ==
    /\ phase = "running" /\ useIndexedDB
    /\ ops < MaxStarted
    /\ pending' = [pending EXCEPT !.dq = Append(@, [op |-> "add", time |-> t])]
    /\ last' = Plain("addDiaper", "pending")
    /\ ops' = ops + 1
    /\ UNCHANGED <<ls, db, feedings, diapers, medicines, useIndexedDB, storageType, timezone,
                   phase, now, prev>>

\* the click handler of clear-all-data, both confirms accepted, up to
\* await db.clearAllData(): one clear request on each store
ClickClearAll ==
    /\ phase = "running" /\ useIndexedDB
    /\ ops < MaxStarted
    /\ pending.clearing = 0
    /\ pending' = [fq |-> Append(pending.fq, [op |-> "clear", time |-> NoTime]),
                   dq |-> Append(pending.dq, [op |-> "clear", time |-> NoTime]),
                   clearing |-> 2]
    /\ last' = Plain("clearAll", "pending")
    /\ ops' = ops + 1
    /\ UNCHANGED <<ls, db, feedings, diapers, medicines, useIndexedDB, storageType, timezone,
                   phase, now, prev>>

\* the arrays after the remainder of the clear-all handler, which runs
\* when the last of its two requests has completed
AfterClear(arr, left) == IF left = 0 THEN <<>> ELSE arr

\* the oldest request on the feedings store completes and the handler
\* that awaited it runs on
FeedingsRequestDone ==
    /\ pending.fq # <<>>
    /\ \E q \in {Head(pending.fq)} :
       IF q.op = "add"
       THEN \E a \in {DbAddFeeding(db, [time |-> q.time], Healthy)} :
              /\ db' = a.db
              /\ feedings' = <<[id |-> a.id, timestamp |-> q.time]>> \o feedings
              /\ pending' = [pending EXCEPT !.fq = Tail(@)]
              /\ last' = Plain("addFeeding", "ok")
              /\ UNCHANGED <<diapers, medicines>>
       ELSE /\ db' = DbClearFeedings(db, Healthy).db
            /\ pending' = [pending EXCEPT !.fq = Tail(@), !.clearing = @ - 1]
            /\ feedings' = AfterClear(feedings, pending.clearing - 1)
            /\ diapers' = AfterClear(diapers, pending.clearing - 1)
            /\ medicines' = AfterClear(medicines, pending.clearing - 1)
            /\ last' = Plain("clearAll", IF pending.clearing = 1 THEN "ok" ELSE "pending")
    /\ UNCHANGED <<ls, useIndexedDB, storageType, timezone, phase, now, ops, prev>>

\* the oldest request on the diapers store completes
DiapersRequestDone ==
    /\ pending.dq # <<>>
    /\ \E q \in {Head(pending.dq)} :
       IF q.op = "add"
       THEN \E a \in {DbAddDiaper(db, [time |-> q.time, hasPee |-> TRUE,
                                        hasPoop |-> FALSE], Healthy)} :
              /\ db' = a.db
              /\ diapers' = <<[id |-> a.id, timestamp |-> q.time, hasPee |-> TRUE,
                               hasPoop |-> FALSE]>> \o diapers
              /\ pending' = [pending EXCEPT !.dq = Tail(@)]
              /\ last' = Plain("addDiaper", "ok")
              /\ UNCHANGED <<feedings, medicines>>
       ELSE /\ db' = DbClearDiapers(db, Healthy).db
            /\ pending' = [pending EXCEPT !.dq = Tail(@), !.clearing = @ - 1]
            /\ feedings' = AfterClear(feedings, pending.clearing - 1)
            /\ diapers' = AfterClear(diapers, pending.clearing - 1)
            /\ medicines' = AfterClear(medicines, pending.clearing - 1)
            /\ last' = Plain("clearAll", IF pending.clearing = 1 THEN "ok" ELSE "pending")
    /\ UNCHANGED <<ls, useIndexedDB, storageType, timezone, phase, now, ops, prev>>

NextRace ==
    \/ \E t \in Times : SubmitFeeding(t)
    \/ \E t \in Times : SubmitDiaper(t)
    \/ ClickClearAll
    \/ FeedingsRequestDone
    \/ DiapersRequestDone

SpecRace == InitRace /\ [][NextRace]_vars

\* ------------------------------------------------- sessions of one browser
\* the page is closed: the FeedingTracker and the BabyFoodDB singleton are
\* gone, localStorage and the database keep their content
ClosePage ==
    /\ phase \in {"running", "crashed"}
    /\ ops < MaxOps
    /\ phase' = "closed"
    /\ feedings' = <<>>
    /\ diapers' = <<>>
    /\ medicines' = <<>>
    /\ useIndexedDB' = FALSE
    /\ storageType' = "initializing"
    /\ timezone' = RuntimeZone
    /\ db' = FreshHandle(db)
    /\ last' = Plain("close", "ok")
    /\ ops' = ops + 1
    /\ UNCHANGED <<ls, now, prev, pending>>

\* a browser before a page load: a new install, or one where an earlier
\* primary session has set the migration flag and may have stored a feeding
InitSessions ==
    /\ ls \in {EmptyLs, [EmptyLs EXCEPT !.migrated = "true"]}
    /\ db \in {NewDB} \cup
              (IF ls.migrated = "true"
               THEN {FreshHandle(DbAddFeeding(NewDB, [time |-> t], Healthy).db) : t \in Times}
               ELSE {})
    /\ feedings = <<>>
    /\ diapers = <<>>
    /\ medicines = <<>>
    /\ useIndexedDB = FALSE
    /\ storageType = "initializing"
    /\ timezone = RuntimeZone
    /\ phase = "closed"
    /\ now = 0
    /\ ops = 0
    /\ last = Blank
    /\ prev = Blank
    /\ pending = NoPending

NextSessions ==
    \/ \E avail \in BOOLEAN : Start(avail, NoFaults, "none")
    \/ ClosePage
    \/ Tick
    \/ \E t \in Times : AddFeeding(t, Healthy, "none")
    \/ \E t \in Times : AddDiaper(t, TRUE, FALSE, Healthy, "none")

SpecSessions == InitSessions /\ [][NextSessions]_vars

\* ------------------------------------------- feedings entered out of order
\* the times the feeding form can be given: the form takes any date, also
\* one before the feedings already recorded
MaxFormTime == 1
FormTimes == 0 .. MaxFormTime

NextOrder ==
    \/ \E avail \in BOOLEAN : Start(avail, NoFaults, "none")
    \/ Tick
    \/ \E t \in FormTimes : AddFeeding(t, Healthy, "none")
    \/ \E id \in Ids(feedings) : DeleteFeeding(id, Healthy, "none")
    \/ \E lines \in LinesOf : ImportCSV(lines, 0, "none")

SpecOrder == InitSessions /\ [][NextOrder]_vars

\* ------------------------------------------------------------------ claims
\* the ids of each array equal the keys of the matching object store
Consistent ==
    /\ Ids(feedings) = StoreIds(db.feedings)
    /\ Ids(diapers) = StoreIds(db.diapers)

\* C1: in IndexedDB mode the ids in this.feedings and this.diapers equal the
\* keys stored in the feedings and diapers object stores after startup and
\* after every operation (add, delete, clear-all, CSV import) all of whose
\* RecordStore calls resolved.
C1_MirrorMatchesStore ==
    [][(/\ phase' = "running" /\ useIndexedDB'
        /\ (phase = "running" => Consistent)
        /\ last'.outcome # "backend") => Consistent']_vars

\* what loadFromLocalStorage leaves in an empty array for a stored value
Loaded(c) == IF c.st = "json" THEN c.recs ELSE <<>>

\* C5: when indexedDB.open fails at startup, init() completes in
\* localStorage mode with the arrays loaded from localStorage, and every
\* later add that completes is in the array and in localStorage.
C5_FallbackStartup ==
    [][/\ (last'.op = "init" /\ ~last'.initOk) =>
            /\ phase' = "running"
            /\ ~useIndexedDB'
            /\ feedings' = Loaded(ls'.feedings)
            /\ diapers' = Loaded(ls'.diapers)
       /\ (/\ phase = "running" /\ ~useIndexedDB /\ ops' # ops
           /\ last'.op \in {"addFeeding", "addDiaper"} /\ last'.outcome = "ok") =>
            /\ Len(feedings') + Len(diapers') = Len(feedings) + Len(diapers) + 1
            /\ ls'.feedings = Stringify(feedings')
            /\ ls'.diapers = Stringify(diapers')]_vars

\* C6: when indexedDB.open succeeds at startup, init() ends in IndexedDB
\* mode whatever migrate() and the load do; localStorage mode is entered
\* only when indexedDB.open fails.
C6_PrimaryIffOpened ==
    last.op = "init" =>
        /\ (last.initOk => phase = "running" /\ useIndexedDB /\ storageType = "indexeddb")
        /\ (~useIndexedDB => ~last.initOk)

\* C7: an operation whose write to the active backend fails leaves
\* this.feedings and this.diapers as they were.
C7_FailedWriteKeepsMirror ==
    [][(ops' # ops /\ last'.outcome = "backend") =>
         (feedings' = feedings /\ diapers' = diapers)]_vars

\* a stored collection whose records all carry a parseable timestamp
WellFormed(c) ==
    /\ c.st # "corrupt"
    /\ \A i \in 1 .. Len(c.recs) : ValidDate(Field(c.recs[i], "timestamp"))

\* the object store holds, under the keys after `key`, the records of recs
Holds(S, key, recs) ==
    /\ Cardinality(S) = Len(recs)
    /\ \A i \in 1 .. Len(recs) :
         \E r \in S : r.id = key + i /\ r.time = Field(recs[i], "timestamp")

\* C2: a migrate() that meets no fault on an install with the flag unset
\* and flat data returns success; the migrate() right after a success
\* returns already_migrated and leaves the database as it was.
C2_MigrateTwice ==
    /\ (/\ last.op = "migrate" /\ last.f = NoFaults
        /\ ~hasMigrated(last.pre.ls) /\ hasLocalStorageData(last.pre.ls))
          => last.status = "success"
    /\ (prev.op = "migrate" /\ prev.status = "success" /\ last.op = "migrate")
          => /\ last.status = "already_migrated"
             /\ last.nf = 0 /\ last.nd = 0
             /\ db = last.pre.db

C2_Witness ==
    /\ prev.op = "migrate" /\ prev.status = "success" /\ prev.nf > 0
    /\ last.op = "migrate" /\ last.status = "already_migrated"
    /\ db.feedings # {}

\* the case of C3: migrate() without faults on a not-migrated install with
\* well-formed collections and empty object stores
C3_Case ==
    /\ last.op = "migrate" /\ last.f = NoFaults
    /\ ~hasMigrated(last.pre.ls)
    /\ WellFormed(last.pre.ls.feedings) /\ WellFormed(last.pre.ls.diapers)
    /\ last.pre.db.feedings = {} /\ last.pre.db.diapers = {}

C3_Post ==
    /\ last.status = "success"
    /\ last.nf = Len(last.pre.ls.feedings.recs)
    /\ last.nd = Len(last.pre.ls.diapers.recs)
    /\ Holds(db.feedings, last.pre.db.fKey, last.pre.ls.feedings.recs)
    /\ Holds(db.diapers, last.pre.db.dKey, last.pre.ls.diapers.recs)
    /\ ls.feedings = Absent /\ ls.diapers = Absent
    /\ ls.backup.st = "json"

\* C3 as stated: for n well-formed flat feedings and m well-formed flat
\* diapers migrate() returns success with feedings = n and diapers = m, the
\* stores hold those records, both keys are removed and a backup exists.
C3_Original == C3_Case => C3_Post

\* C3, amended: the same for n + m >= 1, which is when
\* hasLocalStorageData() is true of well-formed collections.
C3_MigratesAll == (C3_Case /\ hasLocalStorageData(last.pre.ls)) => C3_Post

C3_Witness ==
    /\ C3_Case /\ last.status = "success"
    /\ last.nf = MaxFlat /\ last.nd = 1

\* the feeding records of the run that could not be transformed or inserted
FailedFeedings(recs, fio) ==
    {i \in 1 .. Len(recs) : ~ValidDate(Field(recs[i], "timestamp")) \/ i \in fio}

\* C4: when k of the n flat feedings fail (no usable time, or the insert is
\* rejected) and nothing else does, migrate() returns success with
\* feedings = n - k and k errors, the other records are stored, and the
\* flag is set.
C4_PartialFailure ==
    (/\ last.op = "migrate" /\ ~hasMigrated(last.pre.ls)
     /\ last.pre.ls.feedings.st = "json" /\ Len(last.pre.ls.feedings.recs) >= 1
     /\ WellFormed(last.pre.ls.diapers)
     /\ ~last.f.quota /\ last.f.avail /\ last.f.mio /\ last.f.dio = {})
    => LET recs == last.pre.ls.feedings.recs
           k == Cardinality(FailedFeedings(recs, last.f.fio))
       IN /\ last.status = "success"
          /\ last.nf = Len(recs) - k
          /\ last.ne = k
          /\ Cardinality(db.feedings) = Cardinality(last.pre.db.feedings) + Len(recs) - k
          /\ hasMigrated(ls)

C4_Witness ==
    /\ last.op = "migrate" /\ last.status = "success"
    /\ Len(last.pre.ls.feedings.recs) = 2
    /\ ~ValidDate(Field(last.pre.ls.feedings.recs[1], "timestamp"))
    /\ last.nf = 1 /\ last.ne = 1
    /\ hasMigrated(ls)

\* C8: when the backup cannot be written, migrate() returns status failed
\* instead of throwing and leaves the flag unset.
C8_BackupFailureReturnsFailed ==
    (last.op = "migrate" /\ last.f.quota)
        => /\ last.outcome = "ok"
           /\ last.status = "failed"
           /\ ~hasMigrated(ls)

\* C9: restoreFromBackup() right after a migrate() that returned success
\* puts 'feedings', 'diapers' and the timezone back to their values before
\* that migrate() and clears the flag.
C9_RollbackRoundTrip ==
    (prev.op = "migrate" /\ prev.status = "success" /\ last.op = "restore")
        => /\ last.outcome = "ok"
           /\ ls.feedings = prev.pre.ls.feedings
           /\ ls.diapers = prev.pre.ls.diapers
           /\ ls.timezone = prev.pre.ls.timezone
           /\ ~hasMigrated(ls)

C9_Witness ==
    /\ prev.op = "migrate" /\ prev.status = "success"
    /\ last.op = "restore" /\ last.outcome = "ok"
    /\ ls.feedings.st = "json" /\ Len(ls.feedings.recs) > 0
    /\ ls.diapers.st = "json" /\ Len(ls.diapers.recs) > 0

\* C10: every stored feeding and diaper has timestamp, date and yearMonth
\* equal to the values computed from its time, also after an add with
\* caller-supplied values and after an update that carries one of the
\* three fields and no time.
C10_IndexedFieldsDerived ==
    \A r \in db.feedings \cup db.diapers : Pick(r, IndexedFields) = Derived(r.time)

\* C11: in localStorage mode the records of this.feedings have distinct
\* ids, and so have those of this.diapers, whatever the clock did between
\* the adds and imports that created them.
C11_FallbackIdsDistinct ==
    (phase = "running" /\ ~useIndexedDB) =>
        /\ Cardinality(Ids(feedings)) = Len(feedings)
        /\ Cardinality(Ids(diapers)) = Len(diapers)

\* the number of feedings and diapers an empty store holds after the
\* import of a file, in IndexedDB mode and in localStorage mode
ImportIntoEmpty(file, primary) ==
    LET c == Classify(file, 1, "null")
        a == ImportFeedings(DbInit(NewDB, Healthy).db, c.feedings, 1, 0, 0)
        b == IF a.ok THEN ImportDiapers(a.db, c.diapers, 1, Len(c.feedings), 0) ELSE a
    IN IF primary
       THEN [nf |-> Cardinality(b.db.feedings), nd |-> Cardinality(b.db.diapers)]
       ELSE [nf |-> Len(c.feedings), nd |-> Len(c.diapers)]

\* C12: the file exportCSV() writes, imported into an empty store, gives as
\* many feedings as this.feedings holds and as many diapers as this.diapers.
C12_ExportImportRoundTrip ==
    last.op = "exportCSV" =>
        /\ ImportIntoEmpty(last.file, useIndexedDB).nf = Len(feedings)
        /\ ImportIntoEmpty(last.file, useIndexedDB).nd = Len(diapers)

\* the rows of an array whose FECHA can be parsed
RECURSIVE WellFormedRows(_)
WellFormedRows(rows) ==
    IF rows = <<>> THEN 0
    ELSE (IF ValidDate(Head(rows).time) THEN 1 ELSE 0) + WellFormedRows(Tail(rows))

\* C13: an import stores every row whose time can be parsed and none of
\* the others: the active backend grows by the number of well-formed rows
\* of the file, wherever the malformed rows stand.
C13_MalformedRowSkipped ==
    [][(last'.op = "importCSV" /\ ops' # ops) =>
        LET c == Classify(last'.file, 1, "null")
            good == WellFormedRows(c.feedings) + WellFormedRows(c.diapers)
        IN IF useIndexedDB
           THEN Cardinality(db'.feedings) + Cardinality(db'.diapers)
                    = Cardinality(db.feedings) + Cardinality(db.diapers) + good
           ELSE Len(feedings') + Len(diapers') = Len(feedings) + Len(diapers) + good]_vars

\* C14: a startup that loads from localStorage completes, and a
\* collection whose stored value is absent or cannot be parsed is loaded as
\* the empty array.
C14_FlatLoadNeverThrows ==
    (last.op = "init" /\ storageType = "localstorage") =>
        /\ phase = "running"
        /\ (~last.initOk /\ ~Parses(ls.feedings)) => feedings = <<>>
        /\ (~last.initOk /\ ~Parses(ls.diapers)) => diapers = <<>>

\* the diaper has hasPee or hasPoop true
PeeOrPoop(r) == IsTrue(r, "hasPee") \/ IsTrue(r, "hasPoop")

\* C15: every diaper in this.diapers, in the diapers object store and in
\* the 'diapers' value of localStorage has hasPee or hasPoop true.
C15_DiaperHasPeeOrPoop ==
    /\ \A i \in 1 .. Len(diapers) : PeeOrPoop(diapers[i])
    /\ \A r \in db.diapers : PeeOrPoop(r)
    /\ \A i \in 1 .. Len(ls.diapers.recs) : PeeOrPoop(ls.diapers.recs[i])

\* the time h hours after the instant t
HoursAfter(t, h) == ToISOString(GetTime(t) + h * HourMs)

\* the first record of the array is a dose taken: no interval, not active
DoseOnTop(arr) == arr # <<>> /\ arr[1].interval = 0 /\ ~arr[1].active

\* C16: markMedicineTaken on an active medicine with interval h > 0 adds
\* exactly one medicine record, with interval 0 and not active, and sets
\* the nextDose of the medicine to h hours after the time written on that
\* record, in this.medicines and in the active backend alike.
C16_MarkTakenAdvancesNextDose ==
    [][(last'.op = "markMedicineTaken" /\ ops' # ops
        /\ medicines[Find(medicines, last'.id)].interval > 0
        /\ medicines[Find(medicines, last'.id)].active) =>
          LET at == Find(medicines, last'.id)
              due == HoursAfter(last'.time, medicines[at].interval)
          IN /\ Len(medicines') = Len(medicines) + 1
             /\ DoseOnTop(medicines')
             /\ medicines'[at + 1] = [medicines[at] EXCEPT !.nextDose = due]
             /\ IF useIndexedDB
                THEN /\ Cardinality(db'.medicines) = Cardinality(db.medicines) + 1
                     /\ \E r \in db'.medicines \ db.medicines :
                           r.interval = 0 /\ ~r.active /\ r.id = medicines'[1].id
                     /\ \A r \in db'.medicines : r.id = last'.id => r.nextDose = due
                ELSE ls'.medicines = Stringify(medicines')]_vars

\* C17: after a clear-all that completed without an error, the feedings,
\* the diapers and the medicines are empty in the arrays of the controller
\* and in the active backend.
C17_ClearAllWipesEveryCollection ==
    (last.op = "clearAll" /\ last.outcome = "ok") =>
        /\ feedings = <<>> /\ diapers = <<>> /\ medicines = <<>>
        /\ IF useIndexedDB
           THEN db.feedings = {} /\ db.diapers = {} /\ db.medicines = {}
           ELSE /\ ls.feedings = Stringify(<<>>)
                /\ ls.diapers = Stringify(<<>>)
                /\ ls.medicines = Stringify(<<>>)

\* a localStorage collection is absent or the empty array
EmptyOrAbsent(c) == c.st = "absent" \/ c = Stringify(<<>>)
\* every collection of localStorage is
AllEmptyOrAbsent(l) ==
    EmptyOrAbsent(l.feedings) /\ EmptyOrAbsent(l.diapers) /\ EmptyOrAbsent(l.medicines)

\* C18: migrate() returns no_data exactly when the flag is not set and
\* every collection of localStorage is empty or absent, and then it sets
\* the flag and adds nothing to the database.
C18_NoDataIffNothingStored ==
    last.op = "migrate" =>
        /\ last.status = "no_data" <=>
              (~hasMigrated(last.pre.ls) /\ AllEmptyOrAbsent(last.pre.ls))
        /\ last.status = "no_data" =>
              (hasMigrated(ls) /\ Pick(db, {"feedings", "diapers", "medicines"})
                                   = Pick(last.pre.db, {"feedings", "diapers", "medicines"}))

\* the stored record merged with the partial fields, the indexed fields
\* derived again from the time when the partial has one
Merged(stored, partial) ==
    [k \in (DOMAIN stored) \cup (DOMAIN UpdatesOf(partial)) |->
        IF "time" \in DOMAIN partial /\ k \in IndexedFields THEN Derived(partial.time)[k]
        ELSE IF k \in DOMAIN partial THEN partial[k]
        ELSE stored[k]]

\* C19: updateFeeding on an id that is not stored fails and leaves the
\* feedings unchanged; on a stored id, when it succeeds, the record with
\* that id is replaced by the stored record merged with the partial fields
\* and no other record is changed or created.
C19_UpdateOnlyThatRecord ==
    [][(last'.op = "updateFeeding" /\ ops' # ops) =>
          IF DbGetFeeding(db, last'.id) = {}
          THEN last'.outcome # "ok" /\ db'.feedings = db.feedings
          ELSE last'.outcome = "ok" =>
                 LET stored == CHOOSE r \in db.feedings : r.id = last'.id
                 IN db'.feedings =
                      (db.feedings \ {stored}) \cup {Merged(stored, last'.updates)}]_vars

\* the last call was a query with a startDate and an endDate
RangeQuery ==
    /\ last.op \in {"getFeedings", "getDiapers"}
    /\ Truthy(last.options.startDate) /\ Truthy(last.options.endDate)
\* the store the last query read
Queried == IF last.op = "getFeedings" THEN db.feedings ELSE db.diapers
\* the records of the store with startDate <= timestamp <= endDate
InRange ==
    {r \in Queried : /\ GetTime(last.options.startDate) <= r.timestamp
                     /\ r.timestamp <= GetTime(last.options.endDate)}
\* a is listed no later than b in the order the query asked for
InOrder(a, b) ==
    IF last.options.ascending THEN a.timestamp <= b.timestamp
    ELSE a.timestamp >= b.timestamp
\* res lists n records of InRange, each once, in the order asked for, and
\* no record left out comes before a listed one in that order
FirstOfRange(res, n) ==
    /\ Len(res) = n
    /\ \A i \in 1 .. Len(res) : res[i] \in InRange
    /\ \A i, j \in 1 .. Len(res) : i < j => (res[i] # res[j] /\ InOrder(res[i], res[j]))
    /\ \A r \in InRange : (\A i \in 1 .. Len(res) : res[i] # r) =>
                               \A i \in 1 .. Len(res) : InOrder(res[i], r)
\* the smaller of two numbers
Min(a, b) == IF a < b THEN a ELSE b

StoreCalls ==
    {"addFeeding", "addDiaper", "updateFeeding", "deleteFeeding", "deleteDiaper",
     "clearAllData"}

\* C21: isReady is true exactly when a handle is held; init() with a handle
\* held keeps that handle and opens nothing; close() leaves no handle; a
\* store call that follows close() runs only after a new handle was opened.
C21_HandleLifecycle ==
    [][/\ db.isReady <=> db.db
       /\ db'.isReady <=> db'.db
       /\ (last'.op = "init" /\ ops' # ops /\ db.db) => (last'.outcome = "ok" /\ db' = db)
       /\ (last'.op = "close" /\ ops' # ops) => ~db'.db
       /\ (last.op = "close" /\ last'.op \in StoreCalls /\ ops' # ops) =>
             /\ (\/ last'.outcome = "ok"
                 \/ Pick(db', {"feedings", "diapers"}) # Pick(db, {"feedings", "diapers"}))
                   => (db'.db /\ db'.opens = db.opens + 1)
             /\ ~db'.db =>
                   Pick(db', {"feedings", "diapers"}) = Pick(db, {"feedings", "diapers"})]_vars

\* a handle was opened, released by close(), and a store call that followed
\* went through on a new handle
C21_Witness ==
    /\ prev.op = "close"
    /\ last.op \in StoreCalls /\ last.outcome = "ok"
    /\ db.db /\ db.opens = 2

\* C22: once startup has completed, no step of the session changes the
\* mode: useIndexedDB and storageType stay as init() left them, whether
\* the backend call of the step succeeded or failed.
C22_ModeFixedAfterStartup ==
    [][(phase = "running" /\ phase' = "running") =>
          (useIndexedDB' = useIndexedDB /\ storageType' = storageType)]_vars

\* a primary-mode addFeeding whose insert failed, the mode still primary
C22_Witness ==
    /\ last.op = "addFeeding" /\ last.outcome = "backend"
    /\ useIndexedDB /\ storageType = "indexeddb"

\* the parse errors a migrate() run over this storage logs
ParseErrors(l) ==
    (IF HasItems(l.feedings) /\ ~Parses(l.feedings) THEN 1 ELSE 0)
    + (IF HasItems(l.diapers) /\ ~Parses(l.diapers) THEN 1 ELSE 0)

\* C23: when a migrate() run over flat data sets the flag, every flat
\* feeding and every flat diaper was attempted: the records inserted plus
\* the errors logged account for all of them; a run cut short before the
\* end of the transfer leaves the flag as it was, not set.
C23_FlagOnlyAfterTransfer ==
    /\ (/\ last.op = "migrate" /\ hasLocalStorageData(last.pre.ls)
        /\ ~hasMigrated(last.pre.ls) /\ hasMigrated(ls)) =>
          last.nf + last.nd + last.ne =
              Len(FlatRecords(last.pre.ls.feedings)) + Len(FlatRecords(last.pre.ls.diapers))
              + ParseErrors(last.pre.ls)
    /\ last.op = "migrateCrash" => ~hasMigrated(ls)

\* a run cut short after the first of two flat feedings was inserted
C23_Witness ==
    /\ last.op = "migrateCrash" /\ last.id = 2
    /\ Len(FlatRecords(last.pre.ls.feedings)) = 2
    /\ Cardinality(db.feedings) = Cardinality(last.pre.db.feedings) + 1
    /\ ~hasMigrated(ls)

\* C24: a migrate() that returns status failed has inserted no record: the
\* feedings and the diapers of the database are those before the call.
C24_FailedBeforeAnyTransfer ==
    (last.op = "migrate" /\ last.status = "failed") =>
        Pick(db, {"feedings", "diapers"}) = Pick(last.pre.db, {"feedings", "diapers"})

\* the operations of the controller that change a collection
MutatingOps ==
    {"addFeeding", "addDiaper", "deleteFeeding", "deleteDiaper", "clearAll", "importCSV",
     "addMedicine", "markMedicineTaken"}

\* C25: in fallback mode, when a mutating operation has completed, each
\* collection value of localStorage is the serialised array of the
\* controller.
C25_FallbackResaveComplete ==
    (~useIndexedDB /\ last.op \in MutatingOps /\ last.outcome = "ok") =>
        /\ ls.feedings = Stringify(feedings)
        /\ ls.diapers = Stringify(diapers)
        /\ ls.medicines = Stringify(medicines)

\* a fallback-mode addDiaper completed with the diaper in the array
C25_Witness ==
    /\ ~useIndexedDB /\ phase = "running"
    /\ last.op = "addDiaper" /\ last.outcome = "ok"
    /\ diapers # <<>>
    /\ ls.diapers = Stringify(diapers)

\* C26: once every operation the controller started has completed, the
\* ids in this.feedings and this.diapers are the ids stored in the
\* feedings and the diapers store, whatever the order in which the
\* operations were started and their requests completed.
C26_NoOverlapMirrorEqualsBackend ==
    (phase = "running" /\ useIndexedDB /\ pending = NoPending) =>
        /\ Ids(feedings) = StoreIds(db.feedings)
        /\ Ids(diapers) = StoreIds(db.diapers)

\* the collection keys of localStorage
Collections == {"feedings", "diapers", "medicines"}

\* C27: an operation of a running session writes to the active backend
\* only: in primary mode it leaves the collection keys of localStorage as
\* they were, in fallback mode it leaves the database as it was.
C27_ActiveBackendOnly ==
    [][(phase = "running" /\ phase' = "running" /\ ops' # ops) =>
          IF useIndexedDB THEN Pick(ls', Collections) = Pick(ls, Collections)
          ELSE db' = db]_vars

\* a primary-mode clear-all emptied a store that held a record while the
\* flat keys of a failed migration were still in localStorage
C27_Witness ==
    /\ useIndexedDB /\ last.op = "clearAll" /\ last.outcome = "ok"
    /\ db.feedings = {} /\ db.fKey > 0
    /\ HasItems(ls.feedings)

\* the times of the feedings a fallback session has saved to localStorage
FlatTimes(c) == IF Parses(c) THEN {Field(c.recs[i], "timestamp") : i \in 1 .. Len(c.recs)} ELSE {}
\* the times of the feedings in an array
ArrayTimes(arr) == {Field(arr[i], "timestamp") : i \in 1 .. Len(arr)}

\* C28: with no record ever deleted, a startup that ends in primary mode
\* leaves in this.feedings every feeding a fallback session had added, that
\* is every feeding saved in localStorage and every feeding already in the
\* database, whether or not the flag was set before.
C28_FallbackRecordsSurvive ==
    [][(phase = "closed" /\ phase' = "running" /\ useIndexedDB') =>
          /\ FlatTimes(ls.feedings) \subseteq ArrayTimes(feedings')
          /\ {r.time : r \in db.feedings} \subseteq ArrayTimes(feedings')]_vars

\* the flat value of a collection as the old install left it: the value
\* in the backup once a migrate() has written one, else the value under
\* the key itself
FlatOrigin(l, key) == IF l.backup.st = "json" THEN l.backup[key] ELSE l[key]

\* C29: the database, empty before the first migrate(), holds at most one
\* record for each flat record: no more feedings than there were flat
\* feedings and no more diapers than there were flat diapers, after any
\* sequence of migrate() and restoreFromBackup() calls.
C29_NoFlatRecordTwice ==
    /\ Cardinality(db.feedings) <= Len(FlatRecords(FlatOrigin(ls, "feedings")))
    /\ Cardinality(db.diapers) <= Len(FlatRecords(FlatOrigin(ls, "diapers")))

\* C30: this.feedings is ordered newest first: no feeding of the array is
\* later than one that stands before it, so feedings[0] has the greatest
\* time.
C30_MirrorNewestFirst ==
    \A i, j \in 1 .. Len(feedings) :
        i < j => Field(feedings[i], "timestamp") >= Field(feedings[j], "timestamp")
====
